---- MODULE Spec2Model ----
(***************************************************************************)
(* Model of the MojiDoodle algorithmic segmenter: segment() of             *)
(* src/src/segmenter.ts and runPipeline() of the pipeline module, with     *)
(* every pipeline stage as one action.                                     *)
(*                                                                         *)
(* Numbers.  The program computes with JavaScript numbers; the only        *)
(* non-integer values it derives from integer pixel coordinates are        *)
(* midpoints (x / 2) and ratios.  The model is exact: every length is an   *)
(* integer number of 1/Unit pixels, a halving must be exact (Half), and a  *)
(* ratio is a pair compared by cross-multiplication.                       *)
(*                                                                         *)
(* Indices.  Stroke, lasso, column, row and character indices are the      *)
(* program's own 0-based values; At(s, i) reads the i-th element of a      *)
(* TLA+ sequence the way s[i] does in the program.                         *)
(***************************************************************************)
EXTENDS Integers, Sequences, FiniteSets, TLC

----------------------------------------------------------------------------
(* Bounds of the model *)

\* number of binary fraction digits carried by a length
FracBits == 6
\* most strokes in one input
MaxStrokes == 3
\* most lassos in one input
MaxLassos == 2
\* most dots in a row of dots
MaxDots == 12

Unit == 2 ^ FracBits
Px(n) == n * Unit

\* An exact halving: the model has no value for an inexact one.
Half(n) == CHOOSE h \in {n \div 2} : 2 * h = n

----------------------------------------------------------------------------
(* Arrays *)

At(s, i) == s[i + 1]
Indices(s) == 0 .. (Len(s) - 1)
Range(s) == {s[i] : i \in DOMAIN s}

MinOf(S) == CHOOSE m \in S : \A n \in S : m <= n
MaxOf(S) == CHOOSE m \in S : \A n \in S : m >= n
Min2(a, b) == IF a <= b THEN a ELSE b
Max2(a, b) == IF a >= b THEN a ELSE b
Abs(n) == IF n < 0 THEN -n ELSE n

\* Array.prototype.indexOf
IndexOf(s, v) == MinOf({i \in Indices(s) : At(s, i) = v})

\* Array.prototype.sort((a, b) => key(a) - key(b)) is stable: the place of
\* element i is the number of elements that sort before it.
SortRank(keys, i) ==
    Cardinality({j \in DOMAIN keys :
        keys[j] < keys[i] \/ (keys[j] = keys[i] /\ j < i)}) + 1
SortByKeys(s, keys) ==
    [p \in DOMAIN s |-> s[CHOOSE i \in DOMAIN s : SortRank(keys, i) = p]]
SortInts(s) == SortByKeys(s, s)

\* Array.prototype.filter on an array of stroke indices kept in ascending order
RECURSIVE SetToSeq(_)
SetToSeq(S) ==
    IF S = {} THEN <<>>
    ELSE LET m == MinOf(S) IN <<m>> \o SetToSeq(S \ {m})

RECURSIVE FilterSeq(_, _)
FilterSeq(s, Keep) ==
    IF s = <<>> THEN <<>>
    ELSE (IF Head(s) \in Keep THEN <<Head(s)>> ELSE <<>>) \o FilterSeq(Tail(s), Keep)

RECURSIVE Flatten(_)
Flatten(ss) == IF ss = <<>> THEN <<>> ELSE Head(ss) \o Flatten(Tail(ss))

----------------------------------------------------------------------------
(* Numbers *)

\* a config fraction num / den applied to a length; the product is exact
ExactDiv(n, d) == CHOOSE q \in {n \div d} : q * d = n
Times(n, r) == ExactDiv(n * r.num, r.den)

\* DEFAULT_CONFIG of segmenter.ts, each ratio as a fraction
DEFAULT_CONFIG ==
    [ minColumnGapRatio         |-> [num |-> 1, den |-> 4],
      minRowGapRatio            |-> [num |-> 1, den |-> 4],
      charSizeMultiplier        |-> [num |-> 2, den |-> 1],
      minCharSizeRatio          |-> [num |-> 8, den |-> 100],
      maxCharSizeRatio          |-> [num |-> 40, den |-> 100],
      maxSizeRatio              |-> [num |-> 2, den |-> 1],
      lassoContainmentThreshold |-> [num |-> 1, den |-> 2] ]

----------------------------------------------------------------------------
(* Bounds Estimator: stroke-bounds *)

Xs(stroke) == {stroke[k].x : k \in DOMAIN stroke}
Ys(stroke) == {stroke[k].y : k \in DOMAIN stroke}

calculateStrokeBounds(stroke, index) ==
    IF Len(stroke) = 0
    THEN [ strokeIndex |-> index, minX |-> 0, maxX |-> 0, minY |-> 0, maxY |-> 0,
           centerX |-> 0, centerY |-> 0 ]
    ELSE LET minX == MinOf(Xs(stroke))
             maxX == MaxOf(Xs(stroke))
             minY == MinOf(Ys(stroke))
             maxY == MaxOf(Ys(stroke))
         IN  [ strokeIndex |-> index, minX |-> minX, maxX |-> maxX,
               minY |-> minY, maxY |-> maxY,
               centerX |-> Half(minX + maxX), centerY |-> Half(minY + maxY) ]

\* runPipeline, step 1
StrokeBoundsOf(strs) == [k \in DOMAIN strs |-> calculateStrokeBounds(strs[k], k - 1)]

\* runPipeline, step 2
ContentBoundsOf(sb) ==
    [ minX |-> MinOf({sb[k].minX : k \in DOMAIN sb}),
      maxX |-> MaxOf({sb[k].maxX : k \in DOMAIN sb}),
      minY |-> MinOf({sb[k].minY : k \in DOMAIN sb}),
      maxY |-> MaxOf({sb[k].maxY : k \in DOMAIN sb}) ]

\* sizes.filter(size => size > 5), in array order
RECURSIVE SizesAbove(_, _)
SizesAbove(sizes, limit) ==
    IF sizes = <<>> THEN <<>>
    ELSE (IF Head(sizes) > limit THEN <<Head(sizes)>> ELSE <<>>)
             \o SizesAbove(Tail(sizes), limit)

estimateCharSize(sb, canvasDimension, dimension, config) ==
    IF Len(sb) = 0 THEN Times(canvasDimension, [num |-> 15, den |-> 100])
    ELSE LET all == [k \in DOMAIN sb |->
                        IF dimension = "width" THEN sb[k].maxX - sb[k].minX
                                               ELSE sb[k].maxY - sb[k].minY]
             sizes == SortInts(SizesAbove(all, Px(5)))
         IN  IF Len(sizes) = 0 THEN Times(canvasDimension, [num |-> 15, den |-> 100])
             ELSE LET medianSize == At(sizes, Len(sizes) \div 2)
                      estimated  == Times(medianSize, config.charSizeMultiplier)
                      minSize    == Times(canvasDimension, config.minCharSizeRatio)
                      maxSize    == Times(canvasDimension, config.maxCharSizeRatio)
                  IN  Max2(minSize, Min2(maxSize, estimated))

----------------------------------------------------------------------------
(* Lasso Resolver: lasso-containment *)

\* One edge (i, j) of the ray cast: the test
\*   point.x < (xj - xi) * (point.y - yi) / (yj - yi) + xi
\* multiplied out by yj - yi, which is not 0 when the first conjunct holds.
EdgeCrossed(point, pi, pj) ==
    /\ (pi.y > point.y) # (pj.y > point.y)
    /\ LET d   == pj.y - pi.y
           lhs == (point.x - pi.x) * d
           rhs == (pj.x - pi.x) * (point.y - pi.y)
       IN  IF d > 0 THEN lhs < rhs ELSE lhs > rhs

isPointInPolygon(point, polygon) ==
    IF Len(polygon) < 3 THEN FALSE
    ELSE LET n == Len(polygon)
             prev(i) == IF i = 1 THEN n ELSE i - 1
             crossed == {i \in 1 .. n : EdgeCrossed(point, polygon[i], polygon[prev(i)])}
         IN  Cardinality(crossed) % 2 = 1

PointsInside(stroke, polygon) ==
    Cardinality({k \in DOMAIN stroke : isPointInPolygon(stroke[k], polygon)})

\* a variant that asks for more than the threshold
findStrokesInLassoAbove(strs, polygon, threshold) ==
    SetToSeq({i \in Indices(strs) :
        /\ Len(At(strs, i)) # 0
        /\ PointsInside(At(strs, i), polygon) * threshold.den
               > threshold.num * Len(At(strs, i))})

\* containment >= threshold, with containment = pointsInside / stroke.length
findStrokesInLasso(strs, polygon, threshold) ==
    SetToSeq({i \in Indices(strs) :
        /\ Len(At(strs, i)) # 0
        /\ PointsInside(At(strs, i), polygon) * threshold.den
               >= threshold.num * Len(At(strs, i))})

----------------------------------------------------------------------------
(* Hull Builder: convex-hull *)

cross(o, a, b) == (a.x - o.x) * (b.y - o.y) - (a.y - o.y) * (b.x - o.x)

\* [...points].sort((a, b) => a.x - b.x || a.y - b.y)
PointBefore(a, b) == a.x < b.x \/ (a.x = b.x /\ a.y < b.y)
SortPoints(pts) ==
    LET rank(i) == Cardinality({j \in DOMAIN pts :
                       PointBefore(pts[j], pts[i]) \/ (pts[j] = pts[i] /\ j < i)}) + 1
    IN  [p \in DOMAIN pts |-> pts[CHOOSE i \in DOMAIN pts : rank(i) = p]]

RECURSIVE RemoveDuplicates(_)
RemoveDuplicates(sorted) ==
    IF Len(sorted) <= 1 THEN sorted
    ELSE LET rest == RemoveDuplicates(Tail(sorted))
         IN  IF sorted[1] = sorted[2] THEN rest ELSE <<sorted[1]>> \o rest

\* a variant that keeps a point in line with the two before it
RECURSIVE PopRight(_, _)
PopRight(chain, p) ==
    IF Len(chain) >= 2 /\ cross(chain[Len(chain) - 1], chain[Len(chain)], p) < 0
    THEN PopRight(SubSeq(chain, 1, Len(chain) - 1), p)
    ELSE chain

RECURSIVE PopNonLeft(_, _)
PopNonLeft(chain, p) ==
    IF Len(chain) >= 2 /\ cross(chain[Len(chain) - 1], chain[Len(chain)], p) <= 0
    THEN PopNonLeft(SubSeq(chain, 1, Len(chain) - 1), p)
    ELSE chain

RECURSIVE HalfHull(_, _)
HalfHull(chain, pts) ==
    IF pts = <<>> THEN chain
    ELSE HalfHull(Append(PopNonLeft(chain, Head(pts)), Head(pts)), Tail(pts))

Reverse(s) == [i \in DOMAIN s |-> s[Len(s) + 1 - i]]
DropLast(s) == SubSeq(s, 1, Len(s) - 1)

convexHull(points) ==
    IF Len(points) <= 1 THEN points
    ELSE LET unique == RemoveDuplicates(SortPoints(points))
         IN  IF Len(unique) <= 2 THEN unique
             ELSE DropLast(HalfHull(<<>>, unique))
                      \o DropLast(HalfHull(<<>>, Reverse(unique)))

\* runPipeline, step 2c: every point of every stroke of the group, as {x, y}
GroupPoints(strs, strokeIndices) ==
    Flatten([g \in DOMAIN strokeIndices |->
        [k \in DOMAIN At(strs, strokeIndices[g]) |->
            [x |-> At(strs, strokeIndices[g])[k].x, y |-> At(strs, strokeIndices[g])[k].y]]])

----------------------------------------------------------------------------
(* Dividers *)

DividerLine(intercept, start, end) ==
    [slope |-> 0, intercept |-> intercept, start |-> start, end |-> end]

Intercepts(dividers) == [k \in DOMAIN dividers |-> dividers[k].intercept]

\* dividers.sort((a, b) => a.intercept - b.intercept)
SortDividers(dividers) == SortByKeys(dividers, Intercepts(dividers))

Coord(p, dimension) == IF dimension = "x" THEN p.x ELSE p.y
Perp(p, dimension) == IF dimension = "x" THEN p.y ELSE p.x

\* protected-groups (hull variant): strictly between the hull's min and max
wouldSplitProtectedBound(dividerPosition, dimension, protectedBounds) ==
    \E b \in DOMAIN protectedBounds :
        /\ Len(protectedBounds[b].hull) >= 3
        /\ LET values == {Coord(protectedBounds[b].hull[k], dimension) :
                              k \in DOMAIN protectedBounds[b].hull}
           IN  dividerPosition > MinOf(values) /\ dividerPosition < MaxOf(values)

\* protected-groups (stroke-center variant), the one uniformity and
\* row-detection call: strictly between the least and greatest stroke center
wouldSplitProtectedGroup(dividerPosition, dimension, sb, protectedGroups) ==
    \E g \in DOMAIN protectedGroups :
        LET members == {i \in Range(protectedGroups[g].strokeIndices) : i < Len(sb)}
            positions == {IF dimension = "x" THEN At(sb, i).centerX ELSE At(sb, i).centerY :
                              i \in members}
        IN  /\ Len(protectedGroups[g].strokeIndices) >= 2
            /\ Len(FilterSeq(protectedGroups[g].strokeIndices, members)) >= 2
            /\ dividerPosition > MinOf(positions)
            /\ dividerPosition < MaxOf(positions)

----------------------------------------------------------------------------
(* Column Finder (pass 1) and Column Assigner: column-detection *)

\* the gaps of consecutive strokes of `sorted`, as [gapStart, gapEnd], that
\* are at least size * ratio wide
GapsOf(sorted, size, ratio, dimension) ==
    LET lo(b) == IF dimension = "x" THEN b.minX ELSE b.minY
        hi(b) == IF dimension = "x" THEN b.maxX ELSE b.maxY
        all == [i \in 1 .. (Len(sorted) - 1) |->
                   [gapStart |-> hi(sorted[i]), gapEnd |-> lo(sorted[i + 1])]]
    IN  SelectSeq(all, LAMBDA g : (g.gapEnd - g.gapStart) * ratio.den >= size * ratio.num)

findColumnDividers(sb, charWidth, config, protectedBounds) ==
    IF Len(sb) < 2 THEN <<>>
    ELSE LET overallMinY == MinOf({sb[k].minY : k \in DOMAIN sb})
             overallMaxY == MaxOf({sb[k].maxY : k \in DOMAIN sb})
             sortedByX == SortByKeys(sb, [k \in DOMAIN sb |-> sb[k].centerX])
             gaps == GapsOf(sortedByX, charWidth, config.minColumnGapRatio, "x")
             found == [k \in DOMAIN gaps |->
                          DividerLine(Half(gaps[k].gapStart + gaps[k].gapEnd),
                                      overallMinY - Px(10), overallMaxY + Px(10))]
         IN  SelectSeq(found,
                 LAMBDA d : ~wouldSplitProtectedBound(d.intercept, "x", protectedBounds))

\* the physical column of a center: the dividers, ascending, are scanned and the
\* last one left of the center decides
PhysicalColumn(center, dividerXs) ==
    LET left == {i \in Indices(dividerXs) : center > At(dividerXs, i)}
    IN  IF left = {} THEN 0 ELSE MaxOf(left) + 1

\* a variant that numbers the columns from the left
assignStrokesToColumnsFromLeft(sb, columnDividers) ==
    LET numColumns == Len(columnDividers) + 1
        dividerXs == SortInts(Intercepts(columnDividers))
        colIdx(k) == PhysicalColumn(sb[k].centerX, dividerXs)
    IN  [c \in 1 .. numColumns |->
            SetToSeq({sb[k].strokeIndex : k \in {j \in DOMAIN sb : colIdx(j) = c - 1}})]

assignStrokesToColumns(sb, columnDividers) ==
    LET numColumns == Len(columnDividers) + 1
        dividerXs == SortInts(Intercepts(columnDividers))
        japaneseColIdx(k) == numColumns - 1 - PhysicalColumn(sb[k].centerX, dividerXs)
    IN  [c \in 1 .. numColumns |->
            SetToSeq({sb[k].strokeIndex : k \in {j \in DOMAIN sb : japaneseColIdx(j) = c - 1}})]

----------------------------------------------------------------------------
(* Group Divider Inserter: protected-groups *)

\* the loop over adjacent pairs of lassoBounds; acc is `result`, whose
\* intercepts are the set dividerPositions
RECURSIVE InsertBetween(_, _, _, _, _, _)
InsertBetween(lassoBounds, i, acc, start, end, sideBySideRule) ==
    IF i > Len(lassoBounds) - 1 THEN acc
    ELSE LET current == lassoBounds[i]
             next == lassoBounds[i + 1]
             overlap == current.max - next.min
             smallerSize == Min2(current.max - current.min, next.max - next.min)
             perpOverlap == Min2(current.perpMax, next.perpMax)
                                - Max2(current.perpMin, next.perpMin)
             smallerPerpSize == Min2(current.perpMax - current.perpMin,
                                     next.perpMax - next.perpMin)
             areSideBySide == /\ sideBySideRule
                              /\ smallerPerpSize > 0
                              /\ 10 * perpOverlap > 3 * smallerPerpSize
             skip == smallerSize > 0 /\ 2 * overlap > smallerSize /\ ~areSideBySide
             boundary == Half(current.max + next.min)
             hasNearbyDivider ==
                 \E k \in DOMAIN acc : Abs(acc[k].intercept - boundary) < Px(10)
         IN  IF skip \/ hasNearbyDivider
             THEN InsertBetween(lassoBounds, i + 1, acc, start, end, sideBySideRule)
             ELSE InsertBetween(lassoBounds, i + 1,
                                Append(acc, DividerLine(boundary, start, end)),
                                start, end, sideBySideRule)

RECURSIVE InsertBetweenGivenOnly(_, _, _, _, _, _, _)
InsertBetweenGivenOnly(lassoBounds, i, acc, given, start, end, sideBySideRule) ==
    IF i > Len(lassoBounds) - 1 THEN acc
    ELSE LET current == lassoBounds[i]
             next == lassoBounds[i + 1]
             overlap == current.max - next.min
             smallerSize == Min2(current.max - current.min, next.max - next.min)
             perpOverlap == Min2(current.perpMax, next.perpMax)
                                - Max2(current.perpMin, next.perpMin)
             smallerPerpSize == Min2(current.perpMax - current.perpMin,
                                     next.perpMax - next.perpMin)
             areSideBySide == /\ sideBySideRule
                              /\ smallerPerpSize > 0
                              /\ 10 * perpOverlap > 3 * smallerPerpSize
             skip == smallerSize > 0 /\ 2 * overlap > smallerSize /\ ~areSideBySide
             boundary == Half(current.max + next.min)
             hasNearbyDivider ==
                 \E k \in DOMAIN given : Abs(given[k].intercept - boundary) < Px(10)
         IN  IF skip \/ hasNearbyDivider
             THEN InsertBetweenGivenOnly(lassoBounds, i + 1, acc, given, start, end, sideBySideRule)
             ELSE InsertBetweenGivenOnly(lassoBounds, i + 1,
                                Append(acc, DividerLine(boundary, start, end)), given,
                                start, end, sideBySideRule)

\* a variant that looks for a nearby divider among the given dividers only
addInterLassoDividersGivenOnly(dividers, sb, protectedBounds, dimension) ==
    IF Len(protectedBounds) < 2 THEN dividers
    ELSE LET valid == SelectSeq(protectedBounds, LAMBDA b : Len(b.hull) >= 3)
             box(b) == [ min |-> MinOf({Coord(b.hull[k], dimension) : k \in DOMAIN b.hull}),
                         max |-> MaxOf({Coord(b.hull[k], dimension) : k \in DOMAIN b.hull}),
                         perpMin |-> MinOf({Perp(b.hull[k], dimension) : k \in DOMAIN b.hull}),
                         perpMax |-> MaxOf({Perp(b.hull[k], dimension) : k \in DOMAIN b.hull}) ]
             lassoBounds == [k \in DOMAIN valid |-> box(valid[k])]
             sorted == SortByKeys(lassoBounds, [k \in DOMAIN lassoBounds |-> lassoBounds[k].min])
             perpExtentMin == IF dimension = "x" THEN MinOf({sb[k].minY : k \in DOMAIN sb})
                                                 ELSE MinOf({sb[k].minX : k \in DOMAIN sb})
             perpExtentMax == IF dimension = "x" THEN MaxOf({sb[k].maxY : k \in DOMAIN sb})
                                                 ELSE MaxOf({sb[k].maxX : k \in DOMAIN sb})
         IN  IF Len(lassoBounds) < 2 THEN dividers
             ELSE SortDividers(InsertBetweenGivenOnly(sorted, 1, dividers, dividers,
                                             perpExtentMin - Px(10), perpExtentMax + Px(10),
                                             TRUE))

addInterLassoDividers(dividers, sb, protectedBounds, dimension) ==
    IF Len(protectedBounds) < 2 THEN dividers
    ELSE LET valid == SelectSeq(protectedBounds, LAMBDA b : Len(b.hull) >= 3)
             box(b) == [ min |-> MinOf({Coord(b.hull[k], dimension) : k \in DOMAIN b.hull}),
                         max |-> MaxOf({Coord(b.hull[k], dimension) : k \in DOMAIN b.hull}),
                         perpMin |-> MinOf({Perp(b.hull[k], dimension) : k \in DOMAIN b.hull}),
                         perpMax |-> MaxOf({Perp(b.hull[k], dimension) : k \in DOMAIN b.hull}) ]
             lassoBounds == [k \in DOMAIN valid |-> box(valid[k])]
             sorted == SortByKeys(lassoBounds, [k \in DOMAIN lassoBounds |-> lassoBounds[k].min])
             perpExtentMin == IF dimension = "x" THEN MinOf({sb[k].minY : k \in DOMAIN sb})
                                                 ELSE MinOf({sb[k].minX : k \in DOMAIN sb})
             perpExtentMax == IF dimension = "x" THEN MaxOf({sb[k].maxY : k \in DOMAIN sb})
                                                 ELSE MaxOf({sb[k].maxX : k \in DOMAIN sb})
         IN  IF Len(lassoBounds) < 2 THEN dividers
             ELSE SortDividers(InsertBetween(sorted, 1, dividers,
                                             perpExtentMin - Px(10), perpExtentMax + Px(10),
                                             TRUE))

----------------------------------------------------------------------------
(* Row Finder (pass 2): row-detection *)

getColumnXBounds(colIdx, columnDividers, numColumns, colStrokes) ==
    LET strokeMinX == MinOf({colStrokes[k].minX : k \in DOMAIN colStrokes})
        strokeMaxX == MaxOf({colStrokes[k].maxX : k \in DOMAIN colStrokes})
    IN  IF Len(columnDividers) = 0 \/ Len(colStrokes) = 0
        THEN [minX |-> strokeMinX, maxX |-> strokeMaxX]
        ELSE LET dividerXs == SortInts(Intercepts(columnDividers))
                 physicalColIdx == numColumns - 1 - colIdx
             IN  [ minX |-> IF physicalColIdx > 0 THEN At(dividerXs, physicalColIdx - 1)
                                                  ELSE strokeMinX,
                   maxX |-> IF physicalColIdx < Len(dividerXs) THEN At(dividerXs, physicalColIdx)
                                                               ELSE strokeMaxX ]

findRowDividers(colStrokes, charHeight, colBounds, allStrokeBounds, config, protectedGroups) ==
    IF Len(colStrokes) < 2 THEN <<>>
    ELSE LET sortedByY == SortByKeys(colStrokes,
                                     [k \in DOMAIN colStrokes |-> colStrokes[k].centerY])
             gaps == GapsOf(sortedByY, charHeight, config.minRowGapRatio, "y")
             found == [k \in DOMAIN gaps |->
                          DividerLine(Half(gaps[k].gapStart + gaps[k].gapEnd),
                                      colBounds.minX - Px(10), colBounds.maxX + Px(10))]
         IN  SelectSeq(found,
                 LAMBDA d : ~wouldSplitProtectedGroup(d.intercept, "y", allStrokeBounds,
                                                      protectedGroups))

ColStrokes(sbc, sb, colIdx) ==
    [k \in DOMAIN At(sbc, colIdx) |-> At(sb, At(sbc, colIdx)[k])]

findAllRowDividers(sbc, sb, columnDividers, charHeight, config, protectedGroups) ==
    [c \in DOMAIN sbc |->
        IF Len(sbc[c]) < 2 THEN <<>>
        ELSE findRowDividers(ColStrokes(sbc, sb, c - 1), charHeight,
                 getColumnXBounds(c - 1, columnDividers, Len(sbc), ColStrokes(sbc, sb, c - 1)),
                 sb, config, protectedGroups)]

addInterLassoRowDividers(rowDividers, sbc, sb, columnDividers, protectedBounds) ==
    IF Len(protectedBounds) < 2 THEN rowDividers
    ELSE [c \in DOMAIN rowDividers |->
        IF Len(sbc[c]) < 2 THEN rowDividers[c]
        ELSE LET colStrokes == ColStrokes(sbc, sb, c - 1)
                 colBounds == getColumnXBounds(c - 1, columnDividers, Len(sbc), colStrokes)
                 inCol(b) == FilterSeq(b.strokeIndices, Range(sbc[c]))
                 present == SelectSeq(protectedBounds, LAMBDA b : Len(inCol(b)) # 0)
                 box(b) == [ min |-> MinOf({At(sb, i).minY : i \in Range(inCol(b))}),
                             max |-> MaxOf({At(sb, i).maxY : i \in Range(inCol(b))}),
                             perpMin |-> 0, perpMax |-> 0 ]
                 lassoBounds == [k \in DOMAIN present |-> box(present[k])]
                 sorted == SortByKeys(lassoBounds,
                                      [k \in DOMAIN lassoBounds |-> lassoBounds[k].min])
             IN  IF Len(lassoBounds) < 2 THEN rowDividers[c]
                 ELSE SortDividers(InsertBetween(sorted, 1, rowDividers[c],
                                                 colBounds.minX - Px(10),
                                                 colBounds.maxX + Px(10), FALSE))]

----------------------------------------------------------------------------
(* Uniformity Enforcer and Column/Row Balancer: uniformity *)

MAX_ITERATIONS == 10

\* A ratio max / min, or Infinity
Infinity == [inf |-> TRUE, num |-> 0, den |-> 1]
Ratio(num, den) == [inf |-> FALSE, num |-> num, den |-> den]
\* a variant that also takes a ratio that is no improvement
RatioNotMore(a, b) == b.inf \/ (~a.inf /\ a.num * b.den <= b.num * a.den)
RatioLess(a, b) == ~a.inf /\ (b.inf \/ a.num * b.den < b.num * a.den)
RatioAtMost(a, r) == ~a.inf /\ a.num * r.den <= r.num * a.den

calculateRatio(sizes) ==
    IF Len(sizes) <= 1 THEN Ratio(1, 1)
    ELSE LET min == MinOf(Range(sizes))
             max == MaxOf(Range(sizes))
         IN  IF min > 0 THEN Ratio(max, min) ELSE Infinity

Boundaries(dividers, lo, hi) == <<lo>> \o SortInts(Intercepts(dividers)) \o <<hi>>
Sizes(boundaries) == [i \in 1 .. (Len(boundaries) - 1) |-> boundaries[i + 1] - boundaries[i]]

\* array.splice(idx, 1, a, b) and array.splice(idx, 1), idx 0-based
SpliceTwo(s, idx, a, b) == SubSeq(s, 1, idx) \o <<a, b>> \o SubSeq(s, idx + 2, Len(s))
SpliceOut(s, idx) == SubSeq(s, 1, idx) \o SubSeq(s, idx + 2, Len(s))
\* sizes[idx - 1] += sizes[idx]; sizes.splice(idx, 1), idx 0-based and >= 1
MergeInto(s, idx) ==
    SpliceOut([s EXCEPT ![idx] = s[idx] + s[idx + 1]], idx)

\* What one iteration of the loop decides: the best action, in the order the
\* code tries them (split, merge with the previous cell, merge with the next
\* cell), each taken only when strictly better than the best so far.
ChooseRepair(dividers, lo, hi, dimension, sb, protectedGroups, config) ==
    LET boundaries == Boundaries(dividers, lo, hi)
        sizes == Sizes(boundaries)
        currentRatio == calculateRatio(sizes)
        none == [action |-> "none", ratio |-> currentRatio, split |-> 0, mergeIdx |-> -1]
        largestIdx == IndexOf(sizes, MaxOf(Range(sizes)))
        candidateSplit == Half(At(boundaries, largestIdx) + At(boundaries, largestIdx + 1))
        wouldSplit == wouldSplitProtectedGroup(candidateSplit, dimension, sb, protectedGroups)
        ratioAfterSplit ==
            calculateRatio(SpliceTwo(sizes, largestIdx, Half(At(sizes, largestIdx)),
                                     Half(At(sizes, largestIdx))))
        afterSplit ==
            IF ~wouldSplit /\ RatioLess(ratioAfterSplit, none.ratio)
            THEN [action |-> "split", ratio |-> ratioAfterSplit,
                  split |-> candidateSplit, mergeIdx |-> -1]
            ELSE none
        smallestIdx == IndexOf(sizes, MinOf(Range(sizes)))
        ratioAfterMergePrev == calculateRatio(MergeInto(sizes, smallestIdx))
        afterMergePrev ==
            IF Len(dividers) > 0 /\ smallestIdx > 0
                   /\ RatioLess(ratioAfterMergePrev, afterSplit.ratio)
            THEN [action |-> "merge", ratio |-> ratioAfterMergePrev,
                  split |-> afterSplit.split, mergeIdx |-> smallestIdx - 1]
            ELSE afterSplit
        ratioAfterMergeNext == calculateRatio(MergeInto(sizes, smallestIdx + 1))
        afterMergeNext ==
            IF Len(dividers) > 0 /\ smallestIdx < Len(sizes) - 1
                   /\ RatioLess(ratioAfterMergeNext, afterMergePrev.ratio)
            THEN [action |-> "merge", ratio |-> ratioAfterMergeNext,
                  split |-> afterMergePrev.split, mergeIdx |-> smallestIdx]
            ELSE afterMergePrev
    IN  IF Len(sizes) <= 1 \/ RatioAtMost(currentRatio, config.maxSizeRatio)
        THEN none
        ELSE afterMergeNext

\* a variant whose merge removes the divider after the one chosen, if any
ApplyRepairNextDivider(dividers, repair, start, end) ==
    IF repair.action = "split"
    THEN SortDividers(Append(dividers, DividerLine(repair.split, start, end)))
    ELSE IF repair.action = "merge" /\ repair.mergeIdx >= 0 /\ repair.mergeIdx < Len(dividers)
    THEN SpliceOut(SortDividers(dividers), Min2(repair.mergeIdx + 1, Len(dividers) - 1))
    ELSE dividers

ApplyRepair(dividers, repair, start, end) ==
    IF repair.action = "split"
    THEN SortDividers(Append(dividers, DividerLine(repair.split, start, end)))
    ELSE IF repair.action = "merge" /\ repair.mergeIdx >= 0 /\ repair.mergeIdx < Len(dividers)
    THEN SpliceOut(SortDividers(dividers), repair.mergeIdx)
    ELSE dividers

\* does the loop body break in this iteration?
Breaks(dividers, repair) ==
    ~ \/ repair.action = "split"
      \/ repair.action = "merge" /\ repair.mergeIdx >= 0 /\ repair.mergeIdx < Len(dividers)

\* one iteration of enforceColumnUniformity's loop
ColumnRepair(dividers, sb, contentBounds, protectedGroups, config) ==
    ChooseRepair(dividers, contentBounds.minX, contentBounds.maxX, "x", sb,
                 protectedGroups, config)

RECURSIVE ColumnUniformityLoop(_, _, _, _, _, _)
ColumnUniformityLoop(dividers, iter, sb, contentBounds, protectedGroups, config) ==
    IF iter >= MAX_ITERATIONS THEN dividers
    ELSE LET repair == ColumnRepair(dividers, sb, contentBounds, protectedGroups, config)
         IN  IF Breaks(dividers, repair) THEN dividers
             ELSE ColumnUniformityLoop(
                      ApplyRepair(dividers, repair, contentBounds.minY - Px(10),
                                  contentBounds.maxY + Px(10)),
                      iter + 1, sb, contentBounds, protectedGroups, config)

enforceColumnUniformity(columnDividers, sb, contentBounds, protectedGroups, config) ==
    IF Len(sb) = 0 THEN columnDividers
    ELSE ColumnUniformityLoop(columnDividers, 0, sb, contentBounds, protectedGroups, config)

RECURSIVE RowUniformityLoop(_, _, _, _, _, _, _, _)
RowUniformityLoop(dividers, iter, colMinY, colMaxY, colBounds, sb, protectedGroups, config) ==
    IF iter >= MAX_ITERATIONS THEN dividers
    ELSE LET repair == ChooseRepair(dividers, colMinY, colMaxY, "y", sb,
                                    protectedGroups, config)
         IN  IF Breaks(dividers, repair) THEN dividers
             ELSE RowUniformityLoop(
                      ApplyRepair(dividers, repair, colBounds.minX - Px(10),
                                  colBounds.maxX + Px(10)),
                      iter + 1, colMinY, colMaxY, colBounds, sb, protectedGroups, config)

enforceRowUniformity(rowDividers, sbc, sb, columnDividers, protectedGroups, config) ==
    [c \in DOMAIN rowDividers |->
        IF Len(sbc[c]) = 0 THEN rowDividers[c]
        ELSE LET colStrokes == ColStrokes(sbc, sb, c - 1)
             IN  RowUniformityLoop(rowDividers[c], 0,
                     MinOf({colStrokes[k].minY : k \in DOMAIN colStrokes}),
                     MaxOf({colStrokes[k].maxY : k \in DOMAIN colStrokes}),
                     getColumnXBounds(c - 1, columnDividers, Len(sbc), colStrokes),
                     sb, protectedGroups, config)]

\* Math.max(...rows.map(r => r.length + 1), 1)
MaxRows(rows) == MaxOf({Len(rows[c]) + 1 : c \in DOMAIN rows} \cup {1})

\* a variant that lets the columns outnumber the rows by one
UnbalancedByTwo(dividers, rows) ==
    Len(dividers) + 1 > MaxRows(rows) + 1 /\ Len(dividers) # 0

\* does the balancer's loop body run an iteration?
Unbalanced(dividers, rows) ==
    Len(dividers) + 1 > MaxRows(rows) /\ Len(dividers) # 0

\* a variant that takes the last divider with the least combined width
SmallestGapIdxLast(boundaries) ==
    LET combined(i) == (At(boundaries, i + 1) - At(boundaries, i))
                           + (At(boundaries, i + 2) - At(boundaries, i + 1))
        all == 0 .. (Len(boundaries) - 3)
    IN  MaxOf({i \in all : \A j \in all : combined(i) <= combined(j)})

\* the divider the balancer removes: the first with the least combined width
SmallestGapIdx(boundaries) ==
    LET combined(i) == (At(boundaries, i + 1) - At(boundaries, i))
                           + (At(boundaries, i + 2) - At(boundaries, i + 1))
        all == 0 .. (Len(boundaries) - 3)
    IN  MinOf({i \in all : \A j \in all : combined(i) <= combined(j)})

\* one iteration of enforceColumnsNotExceedRows
BalanceIteration(dividers, sb, charHeight, contentBounds, protectedGroups, config) ==
    LET sortedDividers == SortDividers(dividers)
        boundaries == <<contentBounds.minX>> \o Intercepts(sortedDividers)
                          \o <<contentBounds.maxX>>
        kept == SpliceOut(sortedDividers, SmallestGapIdx(boundaries))
        sbc == assignStrokesToColumns(sb, kept)
        found == findAllRowDividers(sbc, sb, kept, charHeight, config, protectedGroups)
    IN  [ columnDividers |-> kept,
          rowDividers |-> enforceRowUniformity(found, sbc, sb, kept, protectedGroups, config) ]

RECURSIVE BalanceLoop(_, _, _, _, _, _, _, _)
BalanceLoop(dividers, rows, iter, sb, charHeight, contentBounds, protectedGroups, config) ==
    IF iter >= MAX_ITERATIONS \/ ~Unbalanced(dividers, rows)
    THEN [columnDividers |-> dividers, rowDividers |-> rows]
    ELSE LET next == BalanceIteration(dividers, sb, charHeight, contentBounds,
                                      protectedGroups, config)
         IN  BalanceLoop(next.columnDividers, next.rowDividers, iter + 1, sb, charHeight,
                         contentBounds, protectedGroups, config)

enforceColumnsNotExceedRows(dividers, rows, sb, charHeight, contentBounds, protectedGroups, config) ==
    BalanceLoop(dividers, rows, 0, sb, charHeight, contentBounds, protectedGroups, config)

----------------------------------------------------------------------------
(* Cell Grid Builder: cell-grid *)

\* a variant whose row bands leave out their two edges
ColumnCellsOpen(colIdx, colStrokeIndices, sb, colRowDividers) ==
    LET colMinY == MinOf({At(sb, i).minY : i \in Range(colStrokeIndices)})
        colMaxY == MaxOf({At(sb, i).maxY : i \in Range(colStrokeIndices)})
        rowYs == SortInts(Intercepts(colRowDividers))
        numRows == Len(rowYs) + 1
        topY(rowIdx) == IF rowIdx = 0 THEN colMinY - Px(5) ELSE At(rowYs, rowIdx - 1)
        bottomY(rowIdx) == IF rowIdx = numRows - 1 THEN colMaxY + Px(5) ELSE At(rowYs, rowIdx)
        members(rowIdx) ==
            FilterSeq(colStrokeIndices,
                      {i \in Range(colStrokeIndices) :
                          /\ At(sb, i).centerY > topY(rowIdx)
                          /\ At(sb, i).centerY < bottomY(rowIdx)})
        cell(rowIdx) ==
            [ column |-> colIdx, row |-> rowIdx, strokeIndices |-> members(rowIdx),
              bounds |-> [ minX |-> MinOf({At(sb, i).minX : i \in Range(members(rowIdx))}),
                           maxX |-> MaxOf({At(sb, i).maxX : i \in Range(members(rowIdx))}),
                           minY |-> MinOf({At(sb, i).minY : i \in Range(members(rowIdx))}),
                           maxY |-> MaxOf({At(sb, i).maxY : i \in Range(members(rowIdx))}) ] ]
        rows == SetToSeq({r \in 0 .. (numRows - 1) : Len(members(r)) # 0})
    IN  [k \in DOMAIN rows |-> cell(rows[k])]

\* the cells of one column, rows ascending; empty row bands give no cell
ColumnCells(colIdx, colStrokeIndices, sb, colRowDividers) ==
    LET colMinY == MinOf({At(sb, i).minY : i \in Range(colStrokeIndices)})
        colMaxY == MaxOf({At(sb, i).maxY : i \in Range(colStrokeIndices)})
        rowYs == SortInts(Intercepts(colRowDividers))
        numRows == Len(rowYs) + 1
        topY(rowIdx) == IF rowIdx = 0 THEN colMinY - Px(5) ELSE At(rowYs, rowIdx - 1)
        bottomY(rowIdx) == IF rowIdx = numRows - 1 THEN colMaxY + Px(5) ELSE At(rowYs, rowIdx)
        members(rowIdx) ==
            FilterSeq(colStrokeIndices,
                      {i \in Range(colStrokeIndices) :
                          /\ At(sb, i).centerY >= topY(rowIdx)
                          /\ At(sb, i).centerY <= bottomY(rowIdx)})
        cell(rowIdx) ==
            [ column |-> colIdx, row |-> rowIdx, strokeIndices |-> members(rowIdx),
              bounds |-> [ minX |-> MinOf({At(sb, i).minX : i \in Range(members(rowIdx))}),
                           maxX |-> MaxOf({At(sb, i).maxX : i \in Range(members(rowIdx))}),
                           minY |-> MinOf({At(sb, i).minY : i \in Range(members(rowIdx))}),
                           maxY |-> MaxOf({At(sb, i).maxY : i \in Range(members(rowIdx))}) ] ]
        rows == SetToSeq({r \in 0 .. (numRows - 1) : Len(members(r)) # 0})
    IN  [k \in DOMAIN rows |-> cell(rows[k])]

createCellGrid(sbc, sb, columnDividers, rowDividers) ==
    Flatten([c \in DOMAIN sbc |->
        IF Len(sbc[c]) = 0 THEN <<>>
        ELSE ColumnCells(c - 1, sbc[c], sb,
                         IF c <= Len(rowDividers) THEN rowDividers[c] ELSE <<>>)])

----------------------------------------------------------------------------
(* Output Assembler: output-builder *)

\* a variant that sorts the rows of a column bottom-up
SortCellsBottomUp(cells) ==
    LET before(a, b) == a.column < b.column \/ (a.column = b.column /\ a.row > b.row)
        same(a, b) == a.column = b.column /\ a.row = b.row
        rank(i) == Cardinality({j \in DOMAIN cells :
                       before(cells[j], cells[i]) \/ (same(cells[j], cells[i]) /\ j < i)}) + 1
    IN  [p \in DOMAIN cells |-> cells[CHOOSE i \in DOMAIN cells : rank(i) = p]]

\* [...cells].sort by column, then by row
SortCells(cells) ==
    LET before(a, b) == a.column < b.column \/ (a.column = b.column /\ a.row < b.row)
        same(a, b) == a.column = b.column /\ a.row = b.row
        rank(i) == Cardinality({j \in DOMAIN cells :
                       before(cells[j], cells[i]) \/ (same(cells[j], cells[i]) /\ j < i)}) + 1
    IN  [p \in DOMAIN cells |-> cells[CHOOSE i \in DOMAIN cells : rank(i) = p]]

\* the bounding box of all points of the strokes, all zero when there is none
PointBounds(strs, strokeIndices) ==
    LET pts == GroupPoints(strs, strokeIndices)
        xs == {pts[k].x : k \in DOMAIN pts}
        ys == {pts[k].y : k \in DOMAIN pts}
    IN  IF Len(pts) = 0
        THEN [minX |-> 0, maxX |-> 0, minY |-> 0, maxY |-> 0, width |-> 0, height |-> 0]
        ELSE [ minX |-> MinOf(xs), maxX |-> MaxOf(xs), minY |-> MinOf(ys), maxY |-> MaxOf(ys),
               width |-> MaxOf(xs) - MinOf(xs), height |-> MaxOf(ys) - MinOf(ys) ]

\* a variant that numbers a slot by the row of its cell
buildCharacterSlotsByRow(cells, strs) ==
    LET sorted == SortCells(cells)
    IN  [k \in DOMAIN sorted |->
            [ index |-> sorted[k].row,
              strokes |-> sorted[k].strokeIndices,
              bounds |-> PointBounds(strs, sorted[k].strokeIndices) ]]

\* A CharacterSlot.  Its strokes are references to input strokes; the model
\* keeps each reference as the index of the input stroke it refers to.
buildCharacterSlots(cells, strs) ==
    LET sorted == SortCells(cells)
    IN  [k \in DOMAIN sorted |->
            [ index |-> k - 1,
              strokes |-> sorted[k].strokeIndices,
              bounds |-> PointBounds(strs, sorted[k].strokeIndices) ]]

\* a variant that counts the cells from one
buildAnnotatedStrokesFromCellsOneBased(strs, cells) ==
    LET sorted == SortCells(cells)
        holders(i) == {k \in DOMAIN sorted : i \in Range(sorted[k].strokeIndices)}
    IN  [k \in DOMAIN strs |->
            [ index |-> k - 1,
              points |-> strs[k],
              characterIndex |-> IF holders(k - 1) = {} THEN -1
                                 ELSE MaxOf(holders(k - 1)) ]]

\* a variant that lists only the strokes that have points
buildAnnotatedStrokesFromCellsDrawn(strs, cells) ==
    LET sorted == SortCells(cells)
        holders(i) == {k \in DOMAIN sorted : i \in Range(sorted[k].strokeIndices)}
        drawn == SetToSeq({j \in DOMAIN strs : Len(strs[j]) > 0})
    IN  [k \in DOMAIN drawn |->
            [ index |-> k - 1,
              points |-> strs[drawn[k]],
              characterIndex |-> IF holders(drawn[k] - 1) = {} THEN -1
                                 ELSE MaxOf(holders(drawn[k] - 1)) - 1 ]]

\* strokeToChar after the forEach: a later cell overwrites an earlier one
buildAnnotatedStrokesFromCells(strs, cells) ==
    LET sorted == SortCells(cells)
        holders(i) == {k \in DOMAIN sorted : i \in Range(sorted[k].strokeIndices)}
    IN  [k \in DOMAIN strs |->
            [ index |-> k - 1,
              points |-> strs[k],
              characterIndex |-> IF holders(k - 1) = {} THEN -1
                                 ELSE MaxOf(holders(k - 1)) - 1 ]]

\* output-builder, the variant runPipeline calls with (lassoPolygons,
\* manualGroups): one AnnotatedLasso per group of manualGroups, in key order
buildAnnotatedLassos(polygons, groups) ==
    LET keys == SetToSeq(DOMAIN groups)
    IN  [k \in DOMAIN keys |->
            [ index |-> keys[k],
              points |-> At(polygons, keys[k]),
              strokeIndices |-> groups[keys[k]] ]]

\* a variant that lists every lasso, with the strokes its group has, if any
buildSingleCharResultEveryLasso(strs, polygons, groups) ==
    LET all == [k \in DOMAIN strs |-> k - 1]
    IN  [ characters |-> << [ index |-> 0, strokes |-> all,
                              bounds |-> PointBounds(strs, all) ] >>,
          strokes |-> [k \in DOMAIN strs |->
                          [index |-> k - 1, points |-> strs[k], characterIndex |-> 0]],
          lassos |-> [k \in DOMAIN polygons |->
                         [ index |-> k - 1,
                           points |-> polygons[k],
                           strokeIndices |-> IF (k - 1) \in DOMAIN groups
                                             THEN groups[k - 1] ELSE <<>> ]],
          columnDividers |-> <<>>,
          rowDividers |-> <<>>,
          protectedBounds |-> <<>> ]

\* a variant whose slot holds only the strokes that have points
buildSingleCharResultDrawn(strs, polygons, groups) ==
    LET drawn == SetToSeq({k - 1 : k \in {j \in DOMAIN strs : Len(strs[j]) > 0}})
    IN  [ characters |-> << [ index |-> 0, strokes |-> drawn,
                              bounds |-> PointBounds(strs, drawn) ] >>,
          strokes |-> [k \in DOMAIN strs |->
                          [index |-> k - 1, points |-> strs[k], characterIndex |-> 0]],
          lassos |-> buildAnnotatedLassos(polygons, groups),
          columnDividers |-> <<>>,
          rowDividers |-> <<>>,
          protectedBounds |-> <<>> ]

\* pipeline, buildSingleCharResult
buildSingleCharResult(strs, polygons, groups) ==
    LET all == [k \in DOMAIN strs |-> k - 1]
    IN  [ characters |-> << [ index |-> 0, strokes |-> all,
                              bounds |-> PointBounds(strs, all) ] >>,
          strokes |-> [k \in DOMAIN strs |->
                          [index |-> k - 1, points |-> strs[k], characterIndex |-> 0]],
          lassos |-> buildAnnotatedLassos(polygons, groups),
          columnDividers |-> <<>>,
          rowDividers |-> <<>>,
          protectedBounds |-> <<>> ]

----------------------------------------------------------------------------
(* Diagrams: svg-generator.  A diagram is the list of its elements. *)

LASSO_HUES ==
    << 0, 165, 330, 135, 300, 105, 270, 75, 240, 45, 210, 15,
       180, 345, 150, 315, 120, 285, 90, 255, 60, 225, 30, 195 >>

generateSegmentationSvg(columnDividers, rowDividers) ==
    [k \in DOMAIN columnDividers |->
        [ x1 |-> columnDividers[k].intercept, y1 |-> columnDividers[k].start,
          x2 |-> columnDividers[k].intercept, y2 |-> columnDividers[k].end ]]
    \o Flatten([c \in DOMAIN rowDividers |->
        [k \in DOMAIN rowDividers[c] |->
            [ x1 |-> rowDividers[c][k].start, y1 |-> rowDividers[c][k].intercept,
              x2 |-> rowDividers[c][k].end, y2 |-> rowDividers[c][k].intercept ]]])

generateLassoSvg(polygons) ==
    LET drawn == SetToSeq({i \in Indices(polygons) : Len(At(polygons, i)) >= 3})
    IN  [k \in DOMAIN drawn |->
            [ points |-> At(polygons, drawn[k]),
              hue |-> At(LASSO_HUES, drawn[k] % Len(LASSO_HUES)) ]]

----------------------------------------------------------------------------
(* Inputs *)

Pt(x, y) == [x |-> Px(x), y |-> Px(y), t |-> 0]
V(x, y) == [x |-> Px(x), y |-> Px(y)]
Rect(minX, minY, maxX, maxY) == <<V(minX, minY), V(maxX, minY), V(maxX, maxY), V(minX, maxY)>>

SeqsUpTo(S, n) == UNION {[1 .. m -> S] : m \in 0 .. n}

\* every input made of strokes and lassos of the two pools, on a 100 x 100 canvas
Family(strokePool, lassoPool) ==
    [ strokes : SeqsUpTo(strokePool, MaxStrokes),
      lassos : SeqsUpTo([points : lassoPool], MaxLassos),
      canvasWidth : {Px(100)},
      canvasHeight : {Px(100)},
      maxCharacters : {1, 3} ]

\* Grid: characters of a two-column layout, lassoed by column, by row, or by
\* a polygon of two vertices
GridStrokes ==
    { <<Pt(70, 10), Pt(90, 10), Pt(90, 30)>>,
      <<Pt(70, 60), Pt(90, 60), Pt(90, 80)>>,
      <<Pt(10, 10), Pt(30, 10), Pt(30, 30)>> }
GridLassos ==
    { Rect(60, 0, 100, 100), Rect(0, 0, 100, 40), <<V(0, 0), V(100, 100)>> }

\* Stack: two lassoed characters of one column and a dot between them
StackStrokes ==
    { <<Pt(70, 10), Pt(90, 10), Pt(90, 36)>>,
      <<Pt(70, 44), Pt(90, 44), Pt(90, 70)>>,
      <<Pt(80, 40)>> }
StackLassos == { Rect(60, 0, 100, 38), Rect(60, 42, 100, 80) }

\* Overlap: a lassoed pair of strokes beside a lassoed tall line whose
\* vertical extent overlaps the pair's
OverlapStrokes ==
    { <<Pt(10, 10), Pt(30, 10), Pt(30, 20)>>,
      <<Pt(10, 40), Pt(30, 40), Pt(30, 50)>>,
      <<Pt(36, 34), Pt(36, 90)>> }
OverlapLassos == { Rect(5, 5, 33, 55), Rect(34, 30, 40, 95) }

\* Tall: two short strokes and a tall line across both, and an empty stroke
TallStrokes ==
    { <<Pt(70, 16), Pt(90, 28)>>,
      <<Pt(70, 34), Pt(90, 46)>>,
      <<Pt(80, 0), Pt(80, 84)>>,
      <<>> }

\* Wide: two narrow strokes and a wide line above both
WideStrokes ==
    { <<Pt(16, 60), Pt(28, 70)>>,
      <<Pt(34, 60), Pt(46, 70)>>,
      <<Pt(0, 0), Pt(84, 4)>> }

\* Beside: a narrow and a wide lassoed character side by side
BesideStrokes ==
    { <<Pt(10, 10), Pt(20, 10), Pt(20, 30)>>,
      <<Pt(22, 10), Pt(70, 10), Pt(70, 30)>>,
      <<Pt(90, 50)>> }
BesideLassos == { Rect(5, 5, 21, 35), Rect(21, 5, 75, 35) }

\* DotRows: up to MaxDots dots side by side, 6 px apart
DotRows ==
    [ strokes : {[i \in 1 .. n |-> <<Pt(6 * i, 50)>>] : n \in 0 .. MaxDots},
      lassos : {<<>>},
      canvasWidth : {Px(100)},
      canvasHeight : {Px(100)},
      maxCharacters : {1, 3} ]

\* UnevenStrokes: dots and horizontal strokes side by side, given by their
\* X extents, at distances that make the columns of the finder uneven
UnevenSpans ==
    { << <<10, 10>>, <<20, 20>>, <<40, 40>> >>,
      << <<8, 8>>, <<16, 16>>, <<24, 24>>, <<88, 88>> >>,
      << <<0, 30>>, <<40, 44>>, <<54, 84>> >> }
SpanStroke(span) ==
    IF span[1] = span[2] THEN <<Pt(span[1], 50)>> ELSE <<Pt(span[1], 50), Pt(span[2], 50)>>
UnevenStrokes ==
    [ strokes : {[i \in DOMAIN spans |-> SpanStroke(spans[i])] : spans \in UnevenSpans},
      lassos : {<<>>},
      canvasWidth : {Px(100)},
      canvasHeight : {Px(100)},
      maxCharacters : {3} ]

\* TallGroup: a lassoed stroke as tall as its column, next to a column of two
\* dots far apart
TallGroup ==
    [ strokes : {<< <<Pt(10, 10), Pt(20, 10), Pt(20, 90)>>, <<Pt(80, 20)>>, <<Pt(80, 80)>> >>},
      lassos : {<< [points |-> Rect(5, 5, 25, 95)] >>},
      canvasWidth : {Px(100)},
      canvasHeight : {Px(100)},
      maxCharacters : {3} ]

\* HullShapes: groups of one lasso over the whole canvas whose points have
\* interior points, points on an edge, repeated points, or are all on a line
HullShapes ==
    [ strokes : { << <<Pt(10, 10), Pt(50, 10), Pt(50, 50), Pt(10, 50)>>, <<Pt(30, 30)>> >>,
                  << <<Pt(10, 10), Pt(30, 10), Pt(50, 10)>>, <<Pt(50, 50)>> >>,
                  << <<Pt(30, 30), Pt(50, 50), Pt(10, 10)>> >>,
                  << <<Pt(10, 10), Pt(10, 10), Pt(50, 10)>>, <<Pt(50, 10), Pt(30, 40), Pt(10, 10)>> >>,
                  << <<Pt(10, 10), Pt(20, 20), Pt(10, 10)>> >>,
                  << <<Pt(20, 20), Pt(20, 20)>> >>,
                  << <<Pt(10, 10), Pt(10, 50), Pt(10, 30), Pt(40, 30)>> >>,
                  << <<Pt(30, 20), Pt(10, 40), Pt(50, 40)>>, <<Pt(30, 30), Pt(30, 60), Pt(20, 36)>> >> },
      lassos : {<< [points |-> Rect(0, 0, 100, 100)] >>},
      canvasWidth : {Px(100)},
      canvasHeight : {Px(100)},
      maxCharacters : {3} ]

\* ThreeGroups: three strokes side by side, each in a lasso of its own, so
\* close that the midpoints between neighbouring groups are 6 px apart
ThreeGroups ==
    [ strokes : {<< <<Pt(10, 10), Pt(20, 10), Pt(20, 30)>>,
                    <<Pt(22, 10), Pt(26, 10), Pt(26, 30)>>,
                    <<Pt(28, 10), Pt(40, 10), Pt(40, 30)>> >>},
      lassos : {<< [points |-> Rect(5, 5, 21, 35)], [points |-> Rect(21, 5, 27, 35)],
                   [points |-> Rect(27, 5, 45, 35)] >>},
      canvasWidth : {Px(100)},
      canvasHeight : {Px(100)},
      maxCharacters : {3} ]

\* Edge: strokes with all, half and a third of their points inside a square
\* lasso; and a polygon of two vertices.  Segmented under each of Thresholds.
EdgeStrokes ==
    { <<Pt(10, 10), Pt(20, 20)>>,
      <<Pt(10, 10), Pt(50, 10)>>,
      <<Pt(10, 10), Pt(50, 10), Pt(50, 20)>> }
EdgeLassos == { Rect(0, 0, 30, 30), <<V(0, 0), V(100, 100)>> }
EdgeInputs == Family(EdgeStrokes, EdgeLassos)
Thresholds ==
    { [num |-> 0, den |-> 1], [num |-> 1, den |-> 2], [num |-> 1, den |-> 1] }

Inputs ==
    Family(GridStrokes, GridLassos)
        \cup Family(StackStrokes, StackLassos)
        \cup Family(OverlapStrokes, OverlapLassos)
        \cup Family(TallStrokes, {})
        \cup Family(WideStrokes, {})
        \cup Family(BesideStrokes, BesideLassos)
        \cup DotRows
        \cup UnevenStrokes
        \cup ThreeGroups
        \cup TallGroup
        \cup HullShapes
        \cup EdgeInputs

\* new Segmenter(config): the defaults, with the given lassoContainmentThreshold
Configs(in) ==
    IF in \in EdgeInputs
    THEN {[DEFAULT_CONFIG EXCEPT !.lassoContainmentThreshold = t] : t \in Thresholds}
    ELSE {DEFAULT_CONFIG}

----------------------------------------------------------------------------
(* segment(): the state of one call *)

VARIABLES
    input,            \* the SegmentInput
    config,           \* the Segmenter's resolved config
    pc,               \* the stage the call is at
    lassoPolygons,    \* runPipeline: polygons of the lassos processed so far
    claimedBy,        \* runPipeline: strokeIndex -> lassoIdx
    manualGroups,     \* runPipeline: lassoIdx -> strokeIndices
    strokeIndices,    \* runPipeline: the strokes found in the lasso being processed
    stealPos,         \* runPipeline: position of the steal loop in strokeIndices
    protectedBounds,  \* runPipeline: lassoIdx -> hull
    columnDividers,
    rowDividers,
    strokesByColumn,
    iter,             \* the iteration counter of the loop pc is in
    cells,
    pipelineResult,   \* what runPipeline returns
    result            \* what segment() returns

vars == << input, config, pc, lassoPolygons, claimedBy, manualGroups, strokeIndices,
           stealPos, protectedBounds, columnDividers, rowDividers, strokesByColumn,
           iter, cells, pipelineResult, result >>

\* a JavaScript Map as a function; Map.set and Map.delete
EmptyMap == <<>>
MapSet(m, k, v) == [x \in DOMAIN m \cup {k} |-> IF x = k THEN v ELSE m[x]]
MapDelete(m, k) == [x \in DOMAIN m \ {k} |-> m[x]]

NoPipelineResult ==
    [ characters |-> <<>>, strokes |-> <<>>, lassos |-> <<>>, columnDividers |-> <<>>,
      rowDividers |-> <<>>, protectedBounds |-> EmptyMap ]
NoResult ==
    [ characters |-> <<>>, strokes |-> <<>>, lassos |-> <<>>, segmentationSvg |-> <<>>,
      lassoSvg |-> <<>> ]

Init ==
    /\ input \in Inputs
    /\ config \in Configs(input)
    /\ pc = "lassos"
    /\ lassoPolygons = <<>>
    /\ claimedBy = EmptyMap
    /\ manualGroups = EmptyMap
    /\ strokeIndices = <<>>
    /\ stealPos = 0
    /\ protectedBounds = EmptyMap
    /\ columnDividers = <<>>
    /\ rowDividers = <<>>
    /\ strokesByColumn = <<>>
    /\ iter = 0
    /\ cells = <<>>
    /\ pipelineResult = NoPipelineResult
    /\ result = NoResult

\* values runPipeline derives from its input alone
strokeBounds == StrokeBoundsOf(input.strokes)
contentBounds == ContentBoundsOf(strokeBounds)
charWidth == estimateCharSize(strokeBounds, input.canvasWidth, "width", config)
charHeight == estimateCharSize(strokeBounds, input.canvasHeight, "height", config)

\* runPipeline: ProtectedBound[] of the groups, in the Map's key order
ProtectedBoundsList(groups, hulls) ==
    LET keys == SetToSeq(DOMAIN groups)
    IN  [k \in DOMAIN keys |-> [strokeIndices |-> groups[keys[k]], hull |-> hulls[keys[k]]]]
protectedBoundsList == ProtectedBoundsList(manualGroups, protectedBounds)

----------------------------------------------------------------------------
(* runPipeline: lasso ownership (manual groups) *)

\* for (const lasso of lassos): the containment test and the push
NextLasso ==
    /\ pc = "lassos"
    /\ Len(lassoPolygons) < Len(input.lassos)
    /\ LET lasso == At(input.lassos, Len(lassoPolygons))
           found == findStrokesInLasso(input.strokes, lasso.points,
                                       config.lassoContainmentThreshold)
       IN  /\ lassoPolygons' = Append(lassoPolygons, lasso.points)
           /\ strokeIndices' = found
           /\ stealPos' = 0
           /\ pc' = IF Len(found) = 0 THEN "lassos" ELSE "steal"
    /\ UNCHANGED << input, config, claimedBy, manualGroups, protectedBounds, columnDividers,
                    rowDividers, strokesByColumn, iter, cells, pipelineResult, result >>

\* a variant that leaves the stroke in its previous owner's group
StealStrokeKeep ==
    /\ pc = "steal"
    /\ stealPos < Len(strokeIndices)
    /\ claimedBy' = MapSet(claimedBy, At(strokeIndices, stealPos), Len(lassoPolygons) - 1)
    /\ stealPos' = stealPos + 1
    /\ UNCHANGED << input, config, pc, lassoPolygons, manualGroups, strokeIndices,
                    protectedBounds, columnDividers, rowDividers, strokesByColumn, iter,
                    cells, pipelineResult, result >>

\* a variant that keeps a group it has emptied
StealStrokeLeaveEmpty ==
    /\ pc = "steal"
    /\ stealPos < Len(strokeIndices)
    /\ LET idx == Len(lassoPolygons) - 1
           si == At(strokeIndices, stealPos)
       IN  /\ IF si \in DOMAIN claimedBy
              THEN LET prevOwner == claimedBy[si]
                       updated == FilterSeq(manualGroups[prevOwner],
                                            Range(manualGroups[prevOwner]) \ {si})
                   IN  manualGroups' = MapSet(manualGroups, prevOwner, updated)
              ELSE manualGroups' = manualGroups
           /\ claimedBy' = MapSet(claimedBy, si, idx)
    /\ stealPos' = stealPos + 1
    /\ UNCHANGED << input, config, pc, lassoPolygons, strokeIndices, protectedBounds,
                    columnDividers, rowDividers, strokesByColumn, iter, cells,
                    pipelineResult, result >>

\* a variant that deletes the previous owner's group with the first stroke
\* taken from it
StealStrokeDropGroup ==
    /\ pc = "steal"
    /\ stealPos < Len(strokeIndices)
    /\ LET idx == Len(lassoPolygons) - 1
           si == At(strokeIndices, stealPos)
       IN  /\ manualGroups' = IF si \in DOMAIN claimedBy
                              THEN MapDelete(manualGroups, claimedBy[si])
                              ELSE manualGroups
           /\ claimedBy' = MapSet(claimedBy, si, idx)
    /\ stealPos' = stealPos + 1
    /\ UNCHANGED << input, config, pc, lassoPolygons, strokeIndices, protectedBounds,
                    columnDividers, rowDividers, strokesByColumn, iter, cells,
                    pipelineResult, result >>

\* for (const si of strokeIndices): one stroke is taken from its previous owner
StealStroke ==
    /\ pc = "steal"
    /\ stealPos < Len(strokeIndices)
    /\ LET idx == Len(lassoPolygons) - 1
           si == At(strokeIndices, stealPos)
       IN  /\ IF si \in DOMAIN claimedBy
              THEN LET prevOwner == claimedBy[si]
                       updated == FilterSeq(manualGroups[prevOwner],
                                            Range(manualGroups[prevOwner]) \ {si})
                   IN  manualGroups' = IF Len(updated) = 0
                                       THEN MapDelete(manualGroups, prevOwner)
                                       ELSE MapSet(manualGroups, prevOwner, updated)
              ELSE manualGroups' = manualGroups
           /\ claimedBy' = MapSet(claimedBy, si, idx)
    /\ stealPos' = stealPos + 1
    /\ UNCHANGED << input, config, pc, lassoPolygons, strokeIndices, protectedBounds,
                    columnDividers, rowDividers, strokesByColumn, iter, cells,
                    pipelineResult, result >>

\* manualGroups.set(idx, strokeIndices)
SetGroup ==
    /\ pc = "steal"
    /\ stealPos = Len(strokeIndices)
    /\ manualGroups' = MapSet(manualGroups, Len(lassoPolygons) - 1, strokeIndices)
    /\ pc' = "lassos"
    /\ UNCHANGED << input, config, lassoPolygons, claimedBy, strokeIndices, stealPos,
                    protectedBounds, columnDividers, rowDividers, strokesByColumn, iter,
                    cells, pipelineResult, result >>

LassosDone == pc = "lassos" /\ Len(lassoPolygons) = Len(input.lassos)

----------------------------------------------------------------------------
(* runPipeline: early exits *)

\* a variant of the empty return that lists every lasso of the input
ReturnEmptyEveryLasso ==
    /\ LassosDone
    /\ Len(input.strokes) = 0
    /\ pipelineResult' =
           [ characters |-> <<>>, strokes |-> <<>>,
             lassos |-> [k \in DOMAIN lassoPolygons |->
                            [index |-> k - 1, points |-> lassoPolygons[k],
                             strokeIndices |-> <<>>]],
             columnDividers |-> <<>>, rowDividers |-> <<>>, protectedBounds |-> EmptyMap ]
    /\ pc' = "svg"
    /\ UNCHANGED << input, config, lassoPolygons, claimedBy, manualGroups, strokeIndices,
                    stealPos, protectedBounds, columnDividers, rowDividers,
                    strokesByColumn, iter, cells, result >>

ReturnEmpty ==
    /\ LassosDone
    /\ Len(input.strokes) = 0
    /\ pipelineResult' =
           [ characters |-> <<>>, strokes |-> <<>>,
             lassos |-> buildAnnotatedLassos(lassoPolygons, manualGroups),
             columnDividers |-> <<>>, rowDividers |-> <<>>, protectedBounds |-> EmptyMap ]
    /\ pc' = "svg"
    /\ UNCHANGED << input, config, lassoPolygons, claimedBy, manualGroups, strokeIndices,
                    stealPos, protectedBounds, columnDividers, rowDividers,
                    strokesByColumn, iter, cells, result >>

ReturnSingleChar ==
    /\ LassosDone
    /\ Len(input.strokes) # 0
    /\ input.maxCharacters = 1
    /\ pipelineResult' = buildSingleCharResult(input.strokes, lassoPolygons, manualGroups)
    /\ pc' = "svg"
    /\ UNCHANGED << input, config, lassoPolygons, claimedBy, manualGroups, strokeIndices,
                    stealPos, protectedBounds, columnDividers, rowDividers,
                    strokesByColumn, iter, cells, result >>

----------------------------------------------------------------------------
(* runPipeline: the stages *)

\* step 2c: shrink-wrap each manual group to the convex hull of its strokes
BuildHulls ==
    /\ LassosDone
    /\ Len(input.strokes) # 0
    /\ input.maxCharacters # 1
    /\ protectedBounds' =
           [k \in DOMAIN manualGroups |->
               convexHull(GroupPoints(input.strokes, manualGroups[k]))]
    /\ pc' = "columns"
    /\ UNCHANGED << input, config, lassoPolygons, claimedBy, manualGroups, strokeIndices,
                    stealPos, columnDividers, rowDividers, strokesByColumn, iter, cells,
                    pipelineResult, result >>

\* step 4
FindColumns ==
    /\ pc = "columns"
    /\ columnDividers' = findColumnDividers(strokeBounds, charWidth, config,
                                            protectedBoundsList)
    /\ pc' = "interLassoColumns"
    /\ UNCHANGED << input, config, lassoPolygons, claimedBy, manualGroups, strokeIndices,
                    stealPos, protectedBounds, rowDividers, strokesByColumn, iter, cells,
                    pipelineResult, result >>

\* step 4b
InterLassoColumns ==
    /\ pc = "interLassoColumns"
    /\ columnDividers' = addInterLassoDividers(columnDividers, strokeBounds,
                                               protectedBoundsList, "x")
    /\ iter' = 0
    /\ pc' = "columnUniformity"
    /\ UNCHANGED << input, config, lassoPolygons, claimedBy, manualGroups, strokeIndices,
                    stealPos, protectedBounds, rowDividers, strokesByColumn, cells,
                    pipelineResult, result >>

\* step 5, one iteration of the loop that applies a repair
ColumnUniformityStep ==
    /\ pc = "columnUniformity"
    /\ iter < MAX_ITERATIONS
    /\ LET repair == ColumnRepair(columnDividers, strokeBounds, contentBounds,
                                  protectedBoundsList, config)
       IN  /\ ~Breaks(columnDividers, repair)
           /\ columnDividers' = ApplyRepair(columnDividers, repair,
                                            contentBounds.minY - Px(10),
                                            contentBounds.maxY + Px(10))
    /\ iter' = iter + 1
    /\ UNCHANGED << input, config, pc, lassoPolygons, claimedBy, manualGroups,
                    strokeIndices, stealPos, protectedBounds, rowDividers, strokesByColumn,
                    cells, pipelineResult, result >>

\* a variant that leaves the column loop after one repair
AssignColumnsAfterOne ==
    /\ pc = "columnUniformity"
    /\ \/ iter >= 1
       \/ Breaks(columnDividers, ColumnRepair(columnDividers, strokeBounds, contentBounds,
                                              protectedBoundsList, config))
    /\ strokesByColumn' = assignStrokesToColumns(strokeBounds, columnDividers)
    /\ pc' = "rows"
    /\ UNCHANGED << input, config, lassoPolygons, claimedBy, manualGroups, strokeIndices,
                    stealPos, protectedBounds, columnDividers, rowDividers, iter, cells,
                    pipelineResult, result >>

\* step 5, the loop ends; step 6
AssignColumns ==
    /\ pc = "columnUniformity"
    /\ \/ iter >= MAX_ITERATIONS
       \/ Breaks(columnDividers, ColumnRepair(columnDividers, strokeBounds, contentBounds,
                                              protectedBoundsList, config))
    /\ strokesByColumn' = assignStrokesToColumns(strokeBounds, columnDividers)
    /\ pc' = "rows"
    /\ UNCHANGED << input, config, lassoPolygons, claimedBy, manualGroups, strokeIndices,
                    stealPos, protectedBounds, columnDividers, rowDividers, iter, cells,
                    pipelineResult, result >>

\* step 7
FindRows ==
    /\ pc = "rows"
    /\ rowDividers' = findAllRowDividers(strokesByColumn, strokeBounds, columnDividers,
                                         charHeight, config, protectedBoundsList)
    /\ pc' = "interLassoRows"
    /\ UNCHANGED << input, config, lassoPolygons, claimedBy, manualGroups, strokeIndices,
                    stealPos, protectedBounds, columnDividers, strokesByColumn, iter, cells,
                    pipelineResult, result >>

\* step 7b
InterLassoRows ==
    /\ pc = "interLassoRows"
    /\ rowDividers' = addInterLassoRowDividers(rowDividers, strokesByColumn, strokeBounds,
                                               columnDividers, protectedBoundsList)
    /\ pc' = "rowUniformity"
    /\ UNCHANGED << input, config, lassoPolygons, claimedBy, manualGroups, strokeIndices,
                    stealPos, protectedBounds, columnDividers, strokesByColumn, iter, cells,
                    pipelineResult, result >>

\* step 8
RowUniformity ==
    /\ pc = "rowUniformity"
    /\ rowDividers' = enforceRowUniformity(rowDividers, strokesByColumn, strokeBounds,
                                           columnDividers, protectedBoundsList, config)
    /\ iter' = 0
    /\ pc' = "balance"
    /\ UNCHANGED << input, config, lassoPolygons, claimedBy, manualGroups, strokeIndices,
                    stealPos, protectedBounds, columnDividers, strokesByColumn, cells,
                    pipelineResult, result >>


\* a variant whose loop runs for as long as the grid is unbalanced
BalanceStepUncapped ==
    /\ pc = "balance"
    /\ Unbalanced(columnDividers, rowDividers)
    /\ LET next == BalanceIteration(columnDividers, strokeBounds, charHeight,
                                    contentBounds, protectedBoundsList, config)
       IN  /\ columnDividers' = next.columnDividers
           /\ rowDividers' = next.rowDividers
    /\ iter' = iter + 1
    /\ UNCHANGED << input, config, pc, lassoPolygons, claimedBy, manualGroups,
                    strokeIndices, stealPos, protectedBounds, strokesByColumn, cells,
                    pipelineResult, result >>

\* step 9, one iteration of the loop that removes a column divider
BalanceStep ==
    /\ pc = "balance"
    /\ iter < MAX_ITERATIONS
    /\ Unbalanced(columnDividers, rowDividers)
    /\ LET next == BalanceIteration(columnDividers, strokeBounds, charHeight,
                                    contentBounds, protectedBoundsList, config)
       IN  /\ columnDividers' = next.columnDividers
           /\ rowDividers' = next.rowDividers
    /\ iter' = iter + 1
    /\ UNCHANGED << input, config, pc, lassoPolygons, claimedBy, manualGroups,
                    strokeIndices, stealPos, protectedBounds, strokesByColumn, cells,
                    pipelineResult, result >>

\* step 9, the loop ends; the strokes are assigned again
Reassign ==
    /\ pc = "balance"
    /\ iter >= MAX_ITERATIONS \/ ~Unbalanced(columnDividers, rowDividers)
    /\ strokesByColumn' = assignStrokesToColumns(strokeBounds, columnDividers)
    /\ pc' = "cells"
    /\ UNCHANGED << input, config, lassoPolygons, claimedBy, manualGroups, strokeIndices,
                    stealPos, protectedBounds, columnDividers, rowDividers, iter, cells,
                    pipelineResult, result >>

\* step 10
CreateCells ==
    /\ pc = "cells"
    /\ cells' = createCellGrid(strokesByColumn, strokeBounds, columnDividers, rowDividers)
    /\ pc' = "output"
    /\ UNCHANGED << input, config, lassoPolygons, claimedBy, manualGroups, strokeIndices,
                    stealPos, protectedBounds, columnDividers, rowDividers, strokesByColumn,
                    iter, pipelineResult, result >>

\* build output and return
BuildOutput ==
    /\ pc = "output"
    /\ pipelineResult' =
           [ characters |-> buildCharacterSlots(cells, input.strokes),
             strokes |-> buildAnnotatedStrokesFromCells(input.strokes, cells),
             lassos |-> buildAnnotatedLassos(lassoPolygons, manualGroups),
             columnDividers |-> columnDividers,
             rowDividers |-> rowDividers,
             protectedBounds |-> protectedBounds ]
    /\ pc' = "svg"
    /\ UNCHANGED << input, config, lassoPolygons, claimedBy, manualGroups, strokeIndices,
                    stealPos, protectedBounds, columnDividers, rowDividers, strokesByColumn,
                    iter, cells, result >>

----------------------------------------------------------------------------
(* Segmenter.segment: the diagrams and the result *)

HullPolygons(res) ==
    LET kept == SetToSeq({i \in Indices(input.lassos) :
                    /\ i \in DOMAIN res.protectedBounds
                    /\ Len(res.protectedBounds[i]) >= 3})
    IN  [k \in DOMAIN kept |-> res.protectedBounds[kept[k]]]

Return ==
    /\ pc = "svg"
    /\ result' =
           [ characters |-> pipelineResult.characters,
             strokes |-> pipelineResult.strokes,
             lassos |-> pipelineResult.lassos,
             segmentationSvg |->
                 IF input.maxCharacters = 1
                 THEN generateSegmentationSvg(<<>>, <<>>)
                 ELSE generateSegmentationSvg(pipelineResult.columnDividers,
                                              pipelineResult.rowDividers),
             lassoSvg |-> generateLassoSvg(HullPolygons(pipelineResult)) ]
    /\ pc' = "done"
    /\ UNCHANGED << input, config, lassoPolygons, claimedBy, manualGroups, strokeIndices,
                    stealPos, protectedBounds, columnDividers, rowDividers, strokesByColumn,
                    iter, cells, pipelineResult >>

Next ==
    \/ NextLasso
    \/ StealStroke
    \/ SetGroup
    \/ ReturnEmpty
    \/ ReturnSingleChar
    \/ BuildHulls
    \/ FindColumns
    \/ InterLassoColumns
    \/ ColumnUniformityStep
    \/ AssignColumns
    \/ FindRows
    \/ InterLassoRows
    \/ RowUniformity
    \/ BalanceStep
    \/ Reassign
    \/ CreateCells
    \/ BuildOutput
    \/ Return

Spec == Init /\ [][Next]_vars

----------------------------------------------------------------------------
(* Properties of the result *)

Returned == pc = "done"
FullPipeline == Len(input.strokes) # 0 /\ input.maxCharacters > 1

\* the CharacterSlots that hold input stroke s
SlotsOf(s) ==
    {k \in Indices(result.characters) : s \in Range(At(result.characters, k).strokes)}
CharacterIndexOf(s) == At(result.strokes, s).characterIndex

\* the cell a CharacterSlot was built from
CellOf(k) == At(SortCells(cells), k)
CenterX(s) == At(strokeBounds, s).centerX
CenterY(s) == At(strokeBounds, s).centerY

\* C1: with at least one stroke and maxCharacters > 1 the CharacterSlots
\* partition the placed strokes: every input stroke is in at most one slot,
\* its characterIndex is k exactly when it is a member of characters[k], and
\* -1 exactly when it is in no slot.
C1_SlotsPartitionStrokes ==
    (Returned /\ FullPipeline) =>
        \A s \in Indices(input.strokes) :
            /\ Cardinality(SlotsOf(s)) <= 1
            /\ \A k \in Indices(result.characters) :
                   (CharacterIndexOf(s) = k) <=> (k \in SlotsOf(s))
            /\ (CharacterIndexOf(s) = -1) <=> (SlotsOf(s) = {})

\* C2 as stated: of two CharacterSlots of one column, the one with the
\* smaller bounds.minY has the smaller index.
C2_SmallerMinYFirst ==
    (Returned /\ FullPipeline) =>
        \A a, b \in Indices(result.characters) :
            ( /\ CellOf(a).column = CellOf(b).column
              /\ At(result.characters, a).bounds.minY < At(result.characters, b).bounds.minY )
                => At(result.characters, a).index < At(result.characters, b).index

\* C2: reading order within a column follows the stroke centers: of two
\* CharacterSlots of one column, the one that holds a stroke whose center-Y
\* is smaller than that of a stroke of the other has the smaller index.
C2_SmallerCenterYFirst ==
    (Returned /\ FullPipeline) =>
        \A a, b \in Indices(result.characters) :
            ( /\ a # b
              /\ CellOf(a).column = CellOf(b).column
              /\ \E s \in Range(At(result.characters, a).strokes),
                    t \in Range(At(result.characters, b).strokes) : CenterY(s) < CenterY(t) )
                => At(result.characters, a).index < At(result.characters, b).index

\* a column of two slots in which the lower slot reaches higher than the upper one
C2_Witness ==
    /\ Returned /\ FullPipeline
    /\ \E a, b \in Indices(result.characters) :
           /\ CellOf(a).column = CellOf(b).column
           /\ a < b
           /\ At(result.characters, b).bounds.minY < At(result.characters, a).bounds.minY

\* C3 as stated: of two CharacterSlots of different columns, the one with
\* the larger bounds.minX has the smaller index.
C3_LargerMinXFirst ==
    (Returned /\ FullPipeline) =>
        \A a, b \in Indices(result.characters) :
            ( /\ CellOf(a).column # CellOf(b).column
              /\ At(result.characters, a).bounds.minX > At(result.characters, b).bounds.minX )
                => At(result.characters, a).index < At(result.characters, b).index

\* C3: reading order across columns follows the stroke centers: of two
\* CharacterSlots of different columns, the one that holds a stroke whose
\* center-X is larger than that of a stroke of the other has the smaller index.
C3_LargerCenterXFirst ==
    (Returned /\ FullPipeline) =>
        \A a, b \in Indices(result.characters) :
            ( /\ a # b
              /\ CellOf(a).column # CellOf(b).column
              /\ \E s \in Range(At(result.characters, a).strokes),
                    t \in Range(At(result.characters, b).strokes) : CenterX(s) > CenterX(t) )
                => At(result.characters, a).index < At(result.characters, b).index

\* two columns in which the left slot starts right of where a right slot starts
C3_Witness ==
    /\ Returned /\ FullPipeline
    /\ \E a, b \in Indices(result.characters) :
           /\ CellOf(a).column # CellOf(b).column
           /\ a < b
           /\ At(result.characters, b).bounds.minX > At(result.characters, a).bounds.minX

\* C4: in every result of segment(), characters[i].index = i.
C4_IndexIsPosition ==
    Returned =>
        \A i \in Indices(result.characters) : At(result.characters, i).index = i

\* a result of the full pipeline with slots in two columns and two rows
C4_Witness ==
    /\ Returned /\ FullPipeline
    /\ \E a, b, c \in Indices(result.characters) :
           /\ CellOf(a).column # CellOf(b).column
           /\ CellOf(a).column = CellOf(c).column /\ CellOf(a).row # CellOf(c).row

\* C5: with at least one stroke and maxCharacters > 1, every output stroke's
\* characterIndex is -1 or a position of characters.
C5_CharacterIndexInRange ==
    (Returned /\ FullPipeline) =>
        \A s \in Indices(result.strokes) :
            \/ CharacterIndexOf(s) = -1
            \/ 0 <= CharacterIndexOf(s) /\ CharacterIndexOf(s) < Len(result.characters)

\* a stroke of the last of three slots
C5_Witness ==
    /\ Returned /\ FullPipeline
    /\ Len(result.characters) = 3
    /\ \E s \in Indices(result.strokes) : CharacterIndexOf(s) = 2

----------------------------------------------------------------------------
(* Properties of the protected groups *)

\* the lassos that contain stroke s: containment fraction >= threshold
Containing(s) ==
    {l \in Indices(input.lassos) :
        findStrokesInLasso(<<At(input.strokes, s)>>, At(input.lassos, l).points,
                           config.lassoContainmentThreshold) # <<>>}

\* C6: with maxCharacters > 1, all strokes of a protected group end in the
\* same CharacterSlot.
C6_GroupInOneSlot ==
    (Returned /\ FullPipeline) =>
        \A g \in DOMAIN manualGroups :
            \E k \in Indices(result.characters) :
                Range(manualGroups[g]) \subseteq Range(At(result.characters, k).strokes)

\* C7: after each lasso has been processed, the protected groups are pairwise
\* disjoint: every stroke index belongs to at most one group.
C7_GroupsDisjoint ==
    pc # "steal" =>
        \A a, b \in DOMAIN manualGroups :
            a # b => Range(manualGroups[a]) \cap Range(manualGroups[b]) = {}

\* the second lasso has taken a stroke of the first, and both keep a group
C7_Witness ==
    /\ pc = "lassos"
    /\ DOMAIN manualGroups = {0, 1}
    /\ \E s \in Indices(input.strokes) : Containing(s) = {0, 1}

\* C8: after ownership resolution the owner of a stroke is the last lasso, in
\* input order, that contains it; a stroke no lasso contains is in no group;
\* and a group exists exactly for the lassos that own a stroke.
C8_LastLassoWins ==
    LassosDone =>
        /\ \A s \in Indices(input.strokes) :
               LET containing == Containing(s)
                   groupsOf == {g \in DOMAIN manualGroups : s \in Range(manualGroups[g])}
               IN  groupsOf = IF containing = {} THEN {} ELSE {MaxOf(containing)}
        /\ \A g \in DOMAIN manualGroups :
               /\ Len(manualGroups[g]) > 0
               /\ Len(manualGroups[g]) = Cardinality(Range(manualGroups[g]))
               /\ Range(manualGroups[g]) \subseteq Indices(input.strokes)

\* a stroke that two lassos contain, and a stroke that none contains
C8_Witness ==
    /\ LassosDone
    /\ \E s, t \in Indices(input.strokes) :
           /\ Containing(s) = {0, 1}
           /\ Containing(t) = {}

ForcedColumnDividers ==
    LET found == findColumnDividers(strokeBounds, charWidth, config, protectedBoundsList)
    IN  Range(addInterLassoDividers(found, strokeBounds, protectedBoundsList, "x"))
            \ Range(found)
ForcedRowDividers(c) ==
    LET found == findAllRowDividers(strokesByColumn, strokeBounds, columnDividers,
                                    charHeight, config, protectedBoundsList)
        forced == addInterLassoRowDividers(found, strokesByColumn, strokeBounds,
                                           columnDividers, protectedBoundsList)
    IN  Range(forced[c]) \ Range(found[c])

\* C10: every divider the Group Divider Inserter adds is among the dividers
\* the Uniformity Enforcer returns for that axis.
C10_ForcedDividersSurvive ==
    /\ pc = "rows" => ForcedColumnDividers \subseteq Range(columnDividers)
    /\ (pc = "balance" /\ iter = 0) =>
           \A c \in DOMAIN rowDividers : ForcedRowDividers(c) \subseteq Range(rowDividers[c])

----------------------------------------------------------------------------
(* Properties of the grid *)

\* the strokes of group g that fall in column c, and their Y extent
GroupInColumn(g, c) == Range(manualGroups[g]) \cap Range(strokesByColumn[c])
ExtentMinY(S) == MinOf({At(strokeBounds, i).minY : i \in S})
ExtentMaxY(S) == MaxOf({At(strokeBounds, i).maxY : i \in S})

\* the Y extents of two sets of strokes overlap by more than half the smaller
OverlapsByHalf(S, T) ==
    LET overlap == Min2(ExtentMaxY(S), ExtentMaxY(T)) - Max2(ExtentMinY(S), ExtentMinY(T))
        smallerSize == Min2(ExtentMaxY(S) - ExtentMinY(S), ExtentMaxY(T) - ExtentMinY(T))
    IN  smallerSize > 0 /\ 2 * overlap > smallerSize

\* C11: two distinct protected groups whose strokes fall in the same column,
\* with Y extents there that do not overlap by more than half the smaller
\* one, share no CharacterSlot of the result.
C11_AdjacentGroupsSeparated ==
    (Returned /\ FullPipeline) =>
        \A g, h \in DOMAIN manualGroups : \A c \in DOMAIN strokesByColumn :
            ( /\ g # h
              /\ GroupInColumn(g, c) # {}
              /\ GroupInColumn(h, c) # {}
              /\ ~OverlapsByHalf(GroupInColumn(g, c), GroupInColumn(h, c)) )
                => \A k \in Indices(result.characters) :
                       \/ Range(At(result.characters, k).strokes) \cap GroupInColumn(g, c) = {}
                       \/ Range(At(result.characters, k).strokes) \cap GroupInColumn(h, c) = {}

Stage ==
    CASE pc = "done" -> 0
      [] pc = "svg" -> 1
      [] pc = "output" -> 2
      [] pc = "cells" -> 3
      [] pc = "balance" -> 4
      [] pc = "rowUniformity" -> 5
      [] pc = "interLassoRows" -> 6
      [] pc = "rows" -> 7
      [] pc = "columnUniformity" -> 8
      [] pc = "interLassoColumns" -> 9
      [] pc = "columns" -> 10
      [] pc \in {"lassos", "steal"} -> 11

\* the trips the loop of the current stage can still make
TripsLeft ==
    LET perLasso == Len(input.strokes) + 2
        lassosLeft == Len(input.lassos) - Len(lassoPolygons)
    IN  CASE pc = "lassos" -> lassosLeft * perLasso
          [] pc = "steal" -> lassosLeft * perLasso + (Len(strokeIndices) - stealPos) + 1
          [] pc \in {"columnUniformity", "balance"} -> MAX_ITERATIONS - iter
          [] OTHER -> 0

\* a bound on the steps segment() can still take, from the size of its input
StepsLeft ==
    Stage * ((Len(input.lassos) + 1) * (Len(input.strokes) + 2) + MAX_ITERATIONS + 1)
        + TripsLeft

\* the loop conditions and branches of segment() leave a step to take
CanStep ==
    \/ pc \in {"lassos", "steal", "columns", "interLassoColumns", "columnUniformity", "rows"}
    \/ pc \in {"interLassoRows", "rowUniformity", "cells", "output", "svg"}
    \/ pc = "balance" /\ iter < MAX_ITERATIONS /\ Unbalanced(columnDividers, rowDividers)
    \/ pc = "balance" /\ (iter >= MAX_ITERATIONS \/ ~Unbalanced(columnDividers, rowDividers))

----------------------------------------------------------------------------
(* Properties of the short paths *)

SingleChar == Len(input.strokes) # 0 /\ input.maxCharacters = 1

\* C14: with maxCharacters = 1 and at least one stroke the result has exactly
\* one CharacterSlot, with index 0, that holds every input stroke in input
\* order; every output stroke has characterIndex 0; the divider sets are
\* empty and the divider diagram has no line.
C14_SingleSlot ==
    (Returned /\ SingleChar) =>
        /\ Len(result.characters) = 1
        /\ result.characters[1].index = 0
        /\ result.characters[1].strokes = [k \in DOMAIN input.strokes |-> k - 1]
        /\ \A i \in Indices(result.strokes) : At(result.strokes, i).characterIndex = 0
        /\ pipelineResult.columnDividers = <<>>
        /\ pipelineResult.rowDividers = <<>>
        /\ result.segmentationSvg = <<>>

\* a single-character result for several strokes, one of them without points
C14_Witness ==
    /\ Returned /\ SingleChar
    /\ Len(input.strokes) >= 2
    /\ \E i \in Indices(input.strokes) : Len(At(input.strokes, i)) = 0
    /\ Len(result.characters) = 1

C16_StrokesEchoed ==
    Returned =>
        /\ Len(result.strokes) = Len(input.strokes)
        /\ \A i \in Indices(input.strokes) :
               /\ At(result.strokes, i).index = i
               /\ At(result.strokes, i).points = At(input.strokes, i)

\* a grid result for several strokes, one of them without points
C16_Witness ==
    /\ Returned /\ FullPipeline
    /\ Len(result.strokes) >= 2
    /\ \E i \in Indices(input.strokes) : Len(At(input.strokes, i)) = 0
    /\ \E i \in Indices(input.strokes) : Len(At(input.strokes, i)) >= 2

----------------------------------------------------------------------------
(* Properties of strokes without points *)

Drawn == {i \in Indices(input.strokes) : Len(At(input.strokes, i)) > 0}
Pointless == Indices(input.strokes) \ Drawn

\* the content bounds of the strokes that have points
DrawnContentBounds ==
    ContentBoundsOf([k \in DOMAIN SetToSeq(Drawn) |-> At(strokeBounds, SetToSeq(Drawn)[k])])

\* C17: with maxCharacters > 1 a stroke without points has characterIndex
\* -1, is a member of no CharacterSlot, and leaves the content bounds those
\* of the strokes that have points.
C17_PointlessStrokeLeftOut ==
    (Returned /\ FullPipeline /\ Drawn # {}) =>
        /\ \A s \in Pointless : CharacterIndexOf(s) = -1 /\ SlotsOf(s) = {}
        /\ Pointless # {} => contentBounds = DrawnContentBounds

----------------------------------------------------------------------------
(* Properties of lasso containment *)

\* the lasso the loop of runPipeline has read last
LastLasso == At(input.lassos, Len(lassoPolygons) - 1)

\* the points of stroke s that lie inside the last lasso
InsideLast(s) == PointsInside(At(input.strokes, s), LastLasso.points)

\* the fraction a / b against the containment threshold
BelowThreshold(a, b) ==
    a * config.lassoContainmentThreshold.den < config.lassoContainmentThreshold.num * b

\* C18: a stroke with points is claimed by a lasso exactly when the fraction
\* of its points inside the polygon is not below lassoContainmentThreshold.
C18_ClaimedAtThreshold ==
    Len(lassoPolygons) >= 1 =>
        \A s \in Indices(input.strokes) :
            Len(At(input.strokes, s)) > 0 =>
                LET inside == InsideLast(s)
                IN  (s \in Range(strokeIndices))
                        <=> ~BelowThreshold(inside, Len(At(input.strokes, s)))

\* at threshold 1/2 a stroke with half of its points inside is claimed and a
\* stroke with a third of its points inside is not
C18_Witness ==
    /\ Len(lassoPolygons) >= 1
    /\ config.lassoContainmentThreshold = [num |-> 1, den |-> 2]
    /\ \E s \in Range(strokeIndices) : 2 * InsideLast(s) = Len(At(input.strokes, s))
    /\ \E s \in Indices(input.strokes) \ Range(strokeIndices) :
           3 * InsideLast(s) = Len(At(input.strokes, s))

\* C19: a lasso whose polygon has fewer than 3 vertices claims no stroke,
\* owns no stroke, has no group and is not listed in the lassos output,
\* whatever the containment threshold is.
C19_DegenerateLassoOwnsNothing ==
    \A l \in Indices(input.lassos) :
        Len(At(input.lassos, l).points) < 3 =>
            /\ (Len(lassoPolygons) = l + 1) => strokeIndices = <<>>
            /\ l \notin DOMAIN manualGroups
            /\ \A s \in DOMAIN claimedBy : claimedBy[s] # l
            /\ \A k \in Indices(result.lassos) : At(result.lassos, k).index # l

----------------------------------------------------------------------------
(* Properties of the lasso diagram *)

\* the hull of the strokes lasso l owns
OwnedHull(l) == convexHull(GroupPoints(input.strokes, manualGroups[l]))

\* the lassos that own a stroke and have a shape to draw
DrawableOwners ==
    {l \in DOMAIN manualGroups :
        Len(At(input.lassos, l).points) >= 3 /\ Len(OwnedHull(l)) >= 3}

\* C20: every lasso that owns a stroke and has a drawable shape has a polygon
\* in the lasso diagram and an entry in the lassos output, also when
\* maxCharacters = 1.
C20_OwningLassoDrawn ==
    Returned =>
        \A l \in DrawableOwners :
            /\ \E k \in DOMAIN result.lassoSvg : result.lassoSvg[k].points = OwnedHull(l)
            /\ \E k \in DOMAIN result.lassos : result.lassos[k].index = l

----------------------------------------------------------------------------
(* Properties of the Uniformity Enforcer *)

\* the max/min ratio of the column widths a set of column dividers gives
ColumnRatio(dividers) ==
    calculateRatio(Sizes(Boundaries(dividers, contentBounds.minX, contentBounds.maxX)))

\* the Y extent of the strokes of column c (1-based), and the max/min ratio
\* of the row heights a set of row dividers gives in it
ColMinY(c) == MinOf({At(strokeBounds, i).minY : i \in Range(strokesByColumn[c])})
ColMaxY(c) == MaxOf({At(strokeBounds, i).maxY : i \in Range(strokesByColumn[c])})
RowRatio(c, dividers) == calculateRatio(Sizes(Boundaries(dividers, ColMinY(c), ColMaxY(c))))

\* ratio a is strictly lower than ratio b
StrictlyLower(a, b) == ~a.inf /\ (b.inf \/ a.num * b.den < b.num * a.den)

\* the repair the row loop of column c chooses for a set of row dividers
RowRepair(c, dividers) ==
    ChooseRepair(dividers, ColMinY(c), ColMaxY(c), "y", strokeBounds, protectedBoundsList, config)

\* the row dividers of column c after the repair is applied
RowRepaired(c, dividers) ==
    LET colBounds == getColumnXBounds(c - 1, columnDividers, Len(strokesByColumn), ColStrokes(strokesByColumn, strokeBounds, c - 1))
    IN  ApplyRepair(dividers, RowRepair(c, dividers), colBounds.minX - Px(10), colBounds.maxX + Px(10))

\* every repair the row loop of column c applies, from the given dividers
\* and iteration on, strictly lowers the ratio of the row heights
RECURSIVE RowRatiosFall(_, _, _)
RowRatiosFall(c, dividers, i) ==
    IF i >= MAX_ITERATIONS \/ Breaks(dividers, RowRepair(c, dividers)) THEN TRUE
    ELSE LET next == RowRepaired(c, dividers)
         IN  /\ StrictlyLower(RowRatio(c, next), RowRatio(c, dividers))
             /\ RowRatiosFall(c, next, i + 1)

\* the columns whose rows the row loop runs on
RowLoopColumns == {c \in DOMAIN rowDividers : Len(strokesByColumn[c]) # 0}

\* C21: every repair the Uniformity Enforcer applies, on either axis,
\* strictly lowers the max/min ratio of the cell sizes computed from the
\* dividers; when the column loop stops, the dividers stay as they are.
C21_RepairsLowerRatio ==
    /\ [][pc = "columnUniformity" =>
            IF pc' = "columnUniformity"
            THEN StrictlyLower(ColumnRatio(columnDividers'), ColumnRatio(columnDividers))
            ELSE columnDividers' = columnDividers]_vars
    /\ [](pc = "rowUniformity" => \A c \in RowLoopColumns : RowRatiosFall(c, rowDividers[c], 0))

\* the column loop has applied a repair, and later the row loop is about to apply one
C21_Witness ==
    /\ pc = "rowUniformity"
    /\ iter >= 1
    /\ \E c \in RowLoopColumns : ~Breaks(rowDividers[c], RowRepair(c, rowDividers[c]))

InsideHull(position, dimension) ==
    wouldSplitProtectedBound(position, dimension, protectedBoundsList)

\* every split the row loop of column c applies, from the given dividers and
\* iteration on, is at a position outside every hull
RECURSIVE RowSplitsOutsideHulls(_, _, _)
RowSplitsOutsideHulls(c, dividers, i) ==
    IF i >= MAX_ITERATIONS \/ Breaks(dividers, RowRepair(c, dividers)) THEN TRUE
    ELSE /\ RowRepair(c, dividers).action = "split" => ~InsideHull(RowRepair(c, dividers).split, "y")
         /\ RowSplitsOutsideHulls(c, RowRepaired(c, dividers), i + 1)

\* C23: the Uniformity Enforcer applies a split, on either axis, only at a
\* position that is not strictly between the minimum and the maximum of a
\* protected group's convex hull on that axis.
C23_SplitsOutsideHulls ==
    /\ (pc = "columnUniformity" /\ iter < MAX_ITERATIONS) =>
           LET repair == ColumnRepair(columnDividers, strokeBounds, contentBounds, protectedBoundsList, config)
           IN  repair.action = "split" => ~InsideHull(repair.split, "x")
    /\ pc = "rowUniformity" => \A c \in RowLoopColumns : RowSplitsOutsideHulls(c, rowDividers[c], 0)

\* the first cell of the greatest, and of the least, size (1-based)
FirstLargest(sizes) == MinOf({i \in DOMAIN sizes : sizes[i] = MaxOf(Range(sizes))})
FirstSmallest(sizes) == MinOf({i \in DOMAIN sizes : sizes[i] = MinOf(Range(sizes))})

\* The repairs one iteration can choose from, each with the sorted divider
\* positions it leaves: 1, split the first largest cell at its midpoint,
\* unless vetoed; 2, remove the divider between the first smallest cell and
\* the cell before it; 3, remove the divider between it and the cell after it.
Candidates(xs, lo, hi, dimension) ==
    LET b == <<lo>> \o xs \o <<hi>>
        sizes == Sizes(b)
        largest == FirstLargest(sizes)
        smallest == FirstSmallest(sizes)
        mid == Half(b[largest] + b[largest + 1])
    IN  (IF wouldSplitProtectedGroup(mid, dimension, strokeBounds, protectedBoundsList) THEN {}
         ELSE {[order |-> 1, xs |-> SortInts(Append(xs, mid))]})
        \cup (IF smallest > 1 THEN {[order |-> 2, xs |-> SpliceOut(xs, smallest - 2)]} ELSE {})
        \cup (IF smallest < Len(sizes) THEN {[order |-> 3, xs |-> SpliceOut(xs, smallest - 1)]} ELSE {})

\* the candidate of the lowest resulting ratio, the earlier one on equal ratios
BestCandidate(xs, lo, hi, dimension) ==
    LET ratio(a) == calculateRatio(Sizes(<<lo>> \o a.xs \o <<hi>>))
        cands == Candidates(xs, lo, hi, dimension)
    IN  CHOOSE a \in cands :
            \A o \in cands : StrictlyLower(ratio(a), ratio(o))
                                 \/ (~StrictlyLower(ratio(o), ratio(a)) /\ a.order <= o.order)

\* every repair the row loop of column c applies, from the given dividers
\* and iteration on, is the best candidate
RECURSIVE RowChoicesBest(_, _, _)
RowChoicesBest(c, dividers, i) ==
    IF i >= MAX_ITERATIONS \/ Breaks(dividers, RowRepair(c, dividers)) THEN TRUE
    ELSE LET next == RowRepaired(c, dividers)
         IN  /\ Intercepts(next) = BestCandidate(SortInts(Intercepts(dividers)), ColMinY(c), ColMaxY(c), "y").xs
             /\ RowChoicesBest(c, next, i + 1)

\* C24: the repair an iteration of the Uniformity Enforcer applies is the
\* one of the lowest resulting ratio among the split of the first largest
\* cell (if not vetoed) and the merges of the first smallest cell with the
\* cell before and after it; on equal ratios the split wins over a merge and
\* the merge with the cell before wins; a merge removes the divider between
\* the merged cells and no other.
C24_BestRepairApplied ==
    /\ [][(pc = "columnUniformity" /\ pc' = "columnUniformity") =>
            Intercepts(columnDividers') = BestCandidate(SortInts(Intercepts(columnDividers)), contentBounds.minX, contentBounds.maxX, "x").xs]_vars
    /\ [](pc = "rowUniformity" => \A c \in RowLoopColumns : RowChoicesBest(c, rowDividers[c], 0))

\* the column loop is about to apply a merge where the merge with the cell
\* before and the merge with the cell after give the same ratio
C24_Witness ==
    /\ pc = "columnUniformity" /\ iter < MAX_ITERATIONS
    /\ ColumnRepair(columnDividers, strokeBounds, contentBounds, protectedBoundsList, config).action = "merge"
    /\ LET lo == contentBounds.minX
           hi == contentBounds.maxX
           ratio(a) == calculateRatio(Sizes(<<lo>> \o a.xs \o <<hi>>))
           cands == Candidates(SortInts(Intercepts(columnDividers)), lo, hi, "x")
       IN  \E a, o \in cands :
               /\ a.order = 2 /\ o.order = 3
               /\ ~StrictlyLower(ratio(a), ratio(o)) /\ ~StrictlyLower(ratio(o), ratio(a))

----------------------------------------------------------------------------
(* Properties of the Column/Row Balancer *)

\* the width of the two columns next to the k-th column divider (1-based, in
\* ascending order), measured between the content edges and the neighbouring dividers
SpanAround(k) ==
    LET b == Boundaries(columnDividers, contentBounds.minX, contentBounds.maxX)
    IN  b[k + 2] - b[k]

\* the leftmost of the column dividers with the least SpanAround
NarrowestPair ==
    MinOf({k \in DOMAIN columnDividers : \A j \in DOMAIN columnDividers : SpanAround(k) <= SpanAround(j)})

\* the row dividers the Row Finder and the row Uniformity Enforcer give for a set of column dividers
RowsFor(dividers) ==
    LET sbc == assignStrokesToColumns(strokeBounds, dividers)
    IN  enforceRowUniformity(findAllRowDividers(sbc, strokeBounds, dividers, charHeight, config, protectedBoundsList), sbc, strokeBounds, dividers, protectedBoundsList, config)

\* C25: an iteration of the Column/Row Balancer removes exactly one column
\* divider, the leftmost of those whose two adjacent columns are narrowest
\* together, keeps the others, and returns the row dividers recomputed for
\* the columns that are left.
C25_NarrowestPairMerged ==
    [][(pc = "balance" /\ pc' = "balance") =>
          /\ columnDividers' = SpliceOut(SortDividers(columnDividers), NarrowestPair - 1)
          /\ Len(columnDividers') = Len(columnDividers) - 1
          /\ rowDividers' = RowsFor(columnDividers')]_vars

\* the balancer is about to remove a divider that is not the leftmost one
C25_Witness ==
    /\ pc = "balance" /\ iter < MAX_ITERATIONS
    /\ Unbalanced(columnDividers, rowDividers)
    /\ Len(columnDividers) >= 2
    /\ NarrowestPair >= 2

----------------------------------------------------------------------------
(* Properties of the Group Divider Inserter *)

\* the protected bounds the inserter looks at: positions, in the list handed
\* to it, of the hulls that are polygons
GroupBoxes == {g \in DOMAIN protectedBoundsList : Len(protectedBoundsList[g].hull) >= 3}
BoxMinX(g) == MinOf({protectedBoundsList[g].hull[k].x : k \in DOMAIN protectedBoundsList[g].hull})
BoxMaxX(g) == MaxOf({protectedBoundsList[g].hull[k].x : k \in DOMAIN protectedBoundsList[g].hull})
BoxMinY(g) == MinOf({protectedBoundsList[g].hull[k].y : k \in DOMAIN protectedBoundsList[g].hull})
BoxMaxY(g) == MaxOf({protectedBoundsList[g].hull[k].y : k \in DOMAIN protectedBoundsList[g].hull})

\* the order of the primary-axis minimum, earlier in the list first on a tie
BoxBefore(g, h) == BoxMinX(g) < BoxMinX(h) \/ (BoxMinX(g) = BoxMinX(h) /\ g < h)
BoxAt(r) == CHOOSE g \in GroupBoxes : Cardinality({h \in GroupBoxes : BoxBefore(h, g)}) = r - 1

\* the pair is side by side, or its primary overlap is not more than half of
\* the smaller primary size
Warranted(g, h) ==
    LET perpOverlap == Min2(BoxMaxY(g), BoxMaxY(h)) - Max2(BoxMinY(g), BoxMinY(h))
        smallerPerp == Min2(BoxMaxY(g) - BoxMinY(g), BoxMaxY(h) - BoxMinY(h))
        overlap == BoxMaxX(g) - BoxMinX(h)
        smaller == Min2(BoxMaxX(g) - BoxMinX(g), BoxMaxX(h) - BoxMinX(h))
    IN  10 * perpOverlap > 3 * smallerPerp \/ ~(2 * overlap > smaller)

\* the divider positions after the first r pairs: a warranted midpoint joins
\* them when every position so far is 10 units or more away from it
RECURSIVE GroupDividerXs(_)
GroupDividerXs(r) ==
    IF r = 0 THEN Range(Intercepts(columnDividers))
    ELSE LET sofar == GroupDividerXs(r - 1)
             g == BoxAt(r)
             h == BoxAt(r + 1)
         IN  IF Warranted(g, h)
                   /\ \A p \in sofar : Abs(p - Half(BoxMaxX(g) + BoxMinX(h))) >= Px(10)
             THEN sofar \cup {Half(BoxMaxX(g) + BoxMinX(h))}
             ELSE sofar
ExpectedGroupDividerXs ==
    IF Cardinality(GroupBoxes) < 2 THEN Range(Intercepts(columnDividers))
    ELSE GroupDividerXs(Cardinality(GroupBoxes) - 1)

\* C26: the Group Divider Inserter keeps every divider it is given and returns
\* the dividers in ascending order; walking the polygon hulls in the order of
\* their minimum X, it adds the midpoint between one hull's maximum X and the
\* next hull's minimum X exactly when the pair is side by side (Y overlap above
\* 30% of the smaller height) or overlaps in X by no more than half of the
\* smaller width, and no divider, given or added earlier in the call, is
\* closer than 10 units to that midpoint
C26_MidpointsInserted ==
    [][(pc = "interLassoColumns" /\ pc' = "columnUniformity") =>
          /\ \A k \in DOMAIN columnDividers :
                \E j \in DOMAIN columnDividers' : columnDividers'[j] = columnDividers[k]
          /\ \A j \in 1..(Len(columnDividers') - 1) :
                columnDividers'[j].intercept <= columnDividers'[j + 1].intercept
          /\ Range(Intercepts(columnDividers')) = ExpectedGroupDividerXs
          /\ Len(columnDividers') = Len(columnDividers)
                + Cardinality(ExpectedGroupDividerXs \ Range(Intercepts(columnDividers)))]_vars

\* three groups: the first midpoint is added, the second lies within 10 units
\* of it and is left out
C26_Witness ==
    /\ pc = "interLassoColumns"
    /\ Cardinality(GroupBoxes) = 3
    /\ Warranted(BoxAt(1), BoxAt(2))
    /\ Warranted(BoxAt(2), BoxAt(3))
    /\ Cardinality(ExpectedGroupDividerXs) = Len(columnDividers) + 1

----------------------------------------------------------------------------
(* Properties of the Column Finder and the Row Finder *)

\* the midpoints of the gaps, at least size * ratio wide, between strokes
\* consecutive in the order of their centers
GapMidpoints(bs, size, ratio, dimension) ==
    LET sorted == SortByKeys(bs, [k \in DOMAIN bs |->
                                     IF dimension = "x" THEN bs[k].centerX ELSE bs[k].centerY])
        lo(b) == IF dimension = "x" THEN b.minX ELSE b.minY
        hi(b) == IF dimension = "x" THEN b.maxX ELSE b.maxY
        wide == {i \in 1..(Len(sorted) - 1) :
                    (lo(sorted[i + 1]) - hi(sorted[i])) * ratio.den >= size * ratio.num}
    IN  {Half(hi(sorted[i]) + lo(sorted[i + 1])) : i \in wide}

\* the midpoints that no polygon hull has strictly between its minimum and
\* its maximum
OutsideHulls(midpoints, dimension) == {m \in midpoints : ~InsideHull(m, dimension)}

ColumnsFound ==
    LET expected == OutsideHulls(GapMidpoints(strokeBounds, charWidth,
                                              config.minColumnGapRatio, "x"), "x")
    IN  /\ Range(Intercepts(columnDividers)) = expected
        /\ Len(columnDividers) = Cardinality(expected)
        /\ Len(strokeBounds) < 2 => columnDividers = <<>>

RowsFound(c) ==
    LET colStrokes == ColStrokes(strokesByColumn, strokeBounds, c - 1)
        expected == OutsideHulls(GapMidpoints(colStrokes, charHeight,
                                              config.minRowGapRatio, "y"), "y")
    IN  /\ Range(Intercepts(rowDividers[c])) = expected
        /\ Len(rowDividers[c]) = Cardinality(expected)
        /\ Len(colStrokes) < 2 => rowDividers[c] = <<>>

\* C27: the Column Finder returns exactly the midpoints of the gaps of at least
\* charWidth * minColumnGapRatio between strokes consecutive in center-X order
\* that lie strictly inside no polygon hull, and nothing for fewer than two
\* strokes; the Row Finder returns the same per column on the Y axis
C27_GapMidpointsFound ==
    /\ pc = "interLassoColumns" => ColumnsFound
    /\ pc = "interLassoRows" => \A c \in DOMAIN rowDividers : RowsFound(c)

----------------------------------------------------------------------------
(* Properties of the Cell Grid Builder *)

\* the row bands of column c: the column's Y extent, padded by 5 units at the
\* outer edges, cut at the column's row dividers
RowBands(c) ==
    LET ys == SortInts(Intercepts(IF c <= Len(rowDividers) THEN rowDividers[c] ELSE <<>>))
    IN  [r \in 1..(Len(ys) + 1) |->
            [ topY |-> IF r = 1 THEN ColMinY(c) - Px(5) ELSE ys[r - 1],
              bottomY |-> IF r = Len(ys) + 1 THEN ColMaxY(c) + Px(5) ELSE ys[r] ]]
InSomeBand(c, i) ==
    \E r \in DOMAIN RowBands(c) :
        /\ At(strokeBounds, i).centerY >= RowBands(c)[r].topY
        /\ At(strokeBounds, i).centerY <= RowBands(c)[r].bottomY

\* C28: with maxCharacters > 1 every input stroke that has a point is in some
\* cell of the final grid and has a characterIndex >= 0: the row bands of a
\* column cover the center-Y of every stroke assigned to that column
C28_EveryStrokePlaced ==
    /\ pc = "cells" => \A c \in DOMAIN strokesByColumn :
                           \A i \in Range(strokesByColumn[c]) : InSomeBand(c, i)
    /\ pc = "output" => \A s \in Drawn : \E k \in DOMAIN cells : s \in Range(cells[k].strokeIndices)
    /\ (Returned /\ FullPipeline) => \A s \in Drawn : CharacterIndexOf(s) >= 0

\* a column of several row bands with a stroke whose center lies on a row
\* divider, and the result returned for such a grid
C28_Witness ==
    /\ Returned /\ FullPipeline
    /\ \E c \in DOMAIN strokesByColumn :
          /\ c <= Len(rowDividers) /\ Len(rowDividers[c]) >= 1
          /\ \E i \in Range(strokesByColumn[c]) :
                i \in Drawn /\ At(strokeBounds, i).centerY \in Range(Intercepts(rowDividers[c]))

----------------------------------------------------------------------------
(* Properties of the owner map *)

\* the lasso whose strokes are being claimed, and the stroke the loop is at
CurrentLasso == Len(lassoPolygons) - 1
Stealing == pc = "steal" /\ stealPos < Len(strokeIndices)
StolenStroke == At(strokeIndices, stealPos)
HasGroup(s) == claimedBy[s] \in DOMAIN manualGroups /\ s \in Range(manualGroups[claimedBy[s]])

\* C29 as stated: at every step of ownership resolution, a stroke recorded as
\* claimed by lasso A is a member of group A, which exists
C29_OwnersHaveGroups == \A s \in DOMAIN claimedBy : HasGroup(s)

\* C29: at every step of ownership resolution a stroke recorded as claimed by
\* lasso A is a member of group A, unless A is the lasso being processed,
\* whose group is stored after its last stroke is claimed; the previous owner
\* looked up for a stolen stroke is an earlier lasso whose group exists and
\* holds the stroke; and a group is deleted exactly by the step that steals
\* its only stroke
C29_OwnersHaveGroupsOnceStored ==
    /\ [](\A s \in DOMAIN claimedBy : (pc = "steal" /\ claimedBy[s] = CurrentLasso) \/ HasGroup(s))
    /\ []((Stealing /\ StolenStroke \in DOMAIN claimedBy) =>
              claimedBy[StolenStroke] # CurrentLasso /\ HasGroup(StolenStroke))
    /\ [][\A g \in DOMAIN manualGroups :
              g \notin DOMAIN manualGroups' <=>
                  /\ Stealing /\ stealPos' = stealPos + 1
                  /\ StolenStroke \in DOMAIN claimedBy
                  /\ claimedBy[StolenStroke] = g
                  /\ Range(manualGroups[g]) = {StolenStroke}]_vars

\* the second lasso has taken the only stroke of the first, whose group is
\* gone, and has another stroke left to claim
C29_Witness ==
    /\ Stealing
    /\ stealPos >= 1
    /\ \E g \in 0..(CurrentLasso - 1) :
          /\ g \notin DOMAIN manualGroups
          /\ findStrokesInLasso(input.strokes, At(input.lassos, g).points,
                                config.lassoContainmentThreshold)
                 = <<At(strokeIndices, stealPos - 1)>>

----------------------------------------------------------------------------
(* Properties of the Hull Builder *)

\* the vertex after vertex i of a polygon
After(hull, i) == hull[(i % Len(hull)) + 1]

\* hull is the convex hull of the points: for at most 2 distinct points, the
\* distinct points; otherwise vertices that are points, not repeated, with
\* every point on the inner side of every edge or on it and within the
\* vertices' extent, and a strict turn of one sign at every vertex
IsHullOf(hull, points) ==
    LET given == Range(points)
        vertices == Range(hull)
    IN  IF Cardinality(given) <= 2
        THEN vertices = given /\ Len(hull) = Cardinality(given)
        ELSE /\ vertices \subseteq given
             /\ Len(hull) >= 2
             /\ Len(hull) = Cardinality(vertices)
             /\ \A p \in given :
                   /\ MinOf({v.x : v \in vertices}) <= p.x /\ p.x <= MaxOf({v.x : v \in vertices})
                   /\ MinOf({v.y : v \in vertices}) <= p.y /\ p.y <= MaxOf({v.y : v \in vertices})
             /\ \E sign \in {-1, 1} :
                   /\ \A i \in DOMAIN hull : \A p \in given :
                         sign * cross(hull[i], After(hull, i), p) >= 0
                   /\ Len(hull) >= 3 =>
                         \A i \in DOMAIN hull :
                             sign * cross(hull[i], After(hull, i), After(hull, (i % Len(hull)) + 1)) > 0

\* C30: convexHull of at most 2 distinct points is exactly the distinct points;
\* of more, every vertex is an input point, no input point is strictly outside
\* the polygon, no vertex is inside it or on an edge between two other
\* vertices (every consecutive triple turns strictly, with one sign), and no
\* vertex is repeated
C30_HullIsConvexHull ==
    \A g \in DOMAIN protectedBounds :
        IsHullOf(protectedBounds[g], GroupPoints(input.strokes, manualGroups[g]))

\* a hull of a group that has a repeated point, a point in line with two
\* vertices, or a point strictly inside
C30_Witness ==
    \E g \in DOMAIN protectedBounds :
        LET points == GroupPoints(input.strokes, manualGroups[g])
            hull == protectedBounds[g]
        IN  /\ Len(hull) >= 3
            /\ Range(hull) # Range(points)
            /\ Len(points) > Cardinality(Range(points))

====
